---- MODULE Spec2Model ----
(***************************************************************************)
(* A model of bin/dwigradcheck: the enumeration of the 48 candidate        *)
(* gradient tables (flip x permutation x basis), the external tracking     *)
(* and statistics commands run for each, the ranking of the results, the   *)
(* printed report and the optional export of the best table.               *)
(*                                                                         *)
(* Python values are encoded as follows.                                   *)
(*  - a float is a record [neg, mag]: sign bit and magnitude, so that 0.0  *)
(*    and -0.0 are different values, as they are different bit patterns;   *)
(*  - the axis flip is 0, 1 or 2, or the string 'none', for which the      *)
(*    model uses the integer `none` (TLC cannot hold a string and an       *)
(*    integer in one set); IsNumber decides which of the two it is;        *)
(*  - a Python list or tuple is a sequence; Python index i is i + 1 here;  *)
(*  - file names, file lines and command lines are strings, built by the   *)
(*    same concatenations as in the script.                                *)
(*                                                                         *)
(* A further part models the configure script: its options, the search    *)
(* for a compiler, the test of shared library generation and the config    *)
(* file.  Two more model the slots of the widget ScalarFileOptions and     *)
(* the insertion of rows into ODF::Model.                                  *)
(***************************************************************************)
EXTENDS Integers, Sequences, FiniteSets, TLC

VARIABLES
  user,         \* what the user gives: the image, the files the options name
  image_dimensions, \* the size of the input image, once it has been read
  tempdir,      \* whether the scratch directory has been made
  commands,     \* the command lines run before the loop, in order
  pc,           \* position of the script
  args,         \* app.args: export_grad_mrtrix, export_grad_fsl, number
  num_volumes,  \* image_dimensions[3]
  grad_mrtrix,  \* the combined table: num_volumes rows of 4 floats
  grad_fsl,     \* the split table: 3 rows of num_volumes floats
  loaded,       \* history: both tables and the scratch files right after loading
  loop,         \* the three loop indices (flip, permutation, basis)
  grad,         \* the table of the current candidate
  grad_option,  \* the gradient option of the current candidate
  lengths,      \* the results list
  files,        \* the scratch directory: file name -> lines
  last_cmd,     \* the most recent command line run since the loop began
  failed,       \* the command line that failed, "" while none has
  counts,       \* how many times each external command has been run
  printed,      \* the lines printed to standard output
  \* the configure script
  argv,         \* sys.argv[1:], each argument a sequence of characters
  arg_index,    \* how many arguments the option loop has gone through
  noshared, static, R_module, nogui,   \* the flags the options set
  debug, dev, asserts, profile, verbose, openmp, sh_basis_def,
  stdout,       \* what the option loop has printed, "" for nothing
  exit_status,  \* the argument of sys.exit, running while the script runs
  logfile,      \* whether configure.log has been opened
  system,       \* platform.system().lower()
  environ,      \* os.environ: the values of CXX and LD, "" when not set
  ld_cmdline,   \* the list made from LD
  ld_lib,       \* the command line that links a shared library
  cxx,          \* the compiler candidates
  cxx_index,    \* how many candidates the detection loop has gone through
  cpp,          \* the compiler command line
  ld,           \* the linker command line
  config_report,\* the messages reported, in order
  config,       \* the config file, << >> while it has not been written
  position,     \* position of the configure script
  stderr,       \* the message of error(), "" while there is none
  \* ScalarFileOptions
  self,         \* the ScalarFileOptions object: tractogram and the widgets
  tractograms,  \* the Tractogram objects the pointer may point to
  undefined,    \* whether an invalid pointer has been dereferenced
  history,      \* the last slot called; whether set_tractogram has been called
  \* ODF::Model
  items,        \* the images of the model, a row each
  image_list,   \* the argument list of add_items: the images to load
  list_index,   \* the variable i of the loop of add_items
  announced,    \* the rows beginInsertRows has announced: first and last
  rows_before,  \* items.size() when beginInsertRows was called
  odf_position  \* position within image_open_slot and add_items

\* the variables of the configure script
configure_vars == << argv, arg_index, noshared, static, R_module, nogui, system, environ,
                     cxx, cxx_index, cpp, ld, config_report, config, position, stderr,
                     debug, dev, asserts, profile, verbose, openmp, sh_basis_def,
                     stdout, exit_status, logfile, ld_cmdline, ld_lib >>

\* the variables of ScalarFileOptions
scalar_vars == << self, tractograms, undefined, history >>

\* the variables of ODF::Model
odf_vars == << items, image_list, list_index, announced, rows_before, odf_position >>

\* the variables of the two widgets
gui_vars == << scalar_vars, odf_vars >>

\* the variables dwigradcheck does not touch
outside_dwigradcheck == << configure_vars, gui_vars >>

vars == << user, image_dimensions, tempdir, commands, pc, args, num_volumes, grad_mrtrix, grad_fsl, loaded, loop, grad,
           grad_option, lengths, files, last_cmd, failed, counts, printed, configure_vars, gui_vars >>

\* the variables that only the part before the loop writes
start_vars == << user, image_dimensions, tempdir, commands >>

\* the flags and the basis definition the options set
option_vars ==
  << debug, dev, asserts, profile, nogui, sh_basis_def, noshared, static, verbose,
     R_module, openmp >>

\* lines 148-158: the values before the option loop
NoOptions ==
  /\ debug = FALSE /\ asserts = FALSE /\ profile = FALSE /\ nogui = FALSE
  /\ noshared = FALSE /\ static = FALSE /\ verbose = FALSE /\ R_module = FALSE
  /\ openmp = FALSE /\ sh_basis_def = "None" /\ dev = FALSE

\* the exit status of a script that has not ended
running == -1

\* the configure script is not running
ConfigureIdle ==
  /\ argv = << >> /\ arg_index = 0
  /\ NoOptions
  /\ stdout = "" /\ exit_status = running /\ logfile = "closed"
  /\ system = "linux" /\ environ = [CXX |-> "", LD |-> ""]
  /\ cxx = << >> /\ cxx_index = 0 /\ cpp = << >> /\ ld = << >>
  /\ ld_cmdline = << >> /\ ld_lib = << >>
  /\ config_report = << >> /\ config = << >>
  /\ position = "idle" /\ stderr = ""

\* ScalarFileOptions has not been constructed
ScalarIdle == self = << >> /\ tractograms = << >> /\ undefined = FALSE /\ history = << >>

\* ODF::Model has not been constructed
OdfIdle ==
  /\ items = << >> /\ image_list = << >> /\ list_index = 0 /\ announced = << >>
  /\ rows_before = 0 /\ odf_position = "idle"

\* the two widgets have not been constructed
GuiIdle == ScalarIdle /\ OdfIdle

----------------------------------------------------------------------------
(* Bounds of the model *)

MaxVolumes == 2   \* the image has 2..MaxVolumes volumes
MaxMag == 1       \* largest magnitude of the axis-aligned directions
MaxTies == 2      \* at most MaxTies results have the same mean length
TieLength == 50   \* the mean length those results share

----------------------------------------------------------------------------
(* Python values *)

none == -1

IsNumber(flip) == flip # none

F(n) == [neg |-> n < 0, mag |-> IF n < 0 THEN -n ELSE n]

FMul(a, b) == [neg |-> a.neg # b.neg, mag |-> a.mag * b.mag]

FNeg(a) == [neg |-> ~a.neg, mag |-> a.mag]

\* str() of a float with an integral value: '1.0', '-0.0', '1000.0'
str_float(v) == (IF v.neg THEN "-" ELSE "") \o ToString(v.mag) \o ".0"

\* str() of an axis flip: 'none', '0', '1', '2'
str_flip(flip) == IF IsNumber(flip) THEN ToString(flip) ELSE "none"

\* mutant: the index is off by one
Item_off_by_one(seq, i) == seq[((i + 1) % Len(seq)) + 1]

\* Python's seq[i]
Item(seq, i) == seq[i + 1]

RECURSIVE join(_, _)
join(sep, strs) ==
  IF Len(strs) = 0 THEN ""
  ELSE IF Len(strs) = 1 THEN strs[1]
  ELSE strs[1] \o sep \o join(sep, Tail(strs))

----------------------------------------------------------------------------
(* The candidates *)

axis_flips == << none, 0, 1, 2 >>

axis_permutations ==
  << <<0, 1, 2>>, <<0, 2, 1>>, <<1, 0, 2>>, <<1, 2, 0>>, <<2, 0, 1>>, <<2, 1, 0>> >>

grad_basis == << "scanner", "image" >>

\* mutant: the permutation is left out of the name
suffix_without_permutation(flip, permutation, basis) ==
  "_flip" \o str_flip(flip) \o "_" \o basis

suffix(flip, permutation, basis) ==
  "_flip" \o str_flip(flip) \o "_perm"
    \o join("", [i \in 1..3 |-> ToString(permutation[i])]) \o "_" \o basis

\* mutant: the columns are permuted before the flip is applied
scanner_grad_permute_first(table, flip, permutation) ==
  LET multiplier == [c \in 1..4 |-> IF c = flip + 1 THEN F(-1) ELSE F(1)]
      permuted == [r \in 1..Len(table) |->
                     << Item(table[r], permutation[1]), Item(table[r], permutation[2]),
                        Item(table[r], permutation[3]), Item(table[r], 3) >>]
  IN  IF IsNumber(flip)
      THEN [r \in 1..Len(table) |->
              [c \in 1..4 |-> FMul(permuted[r][c], multiplier[c])]]
      ELSE permuted

\* mutant: the multiplier is -1 for the two other axes
scanner_grad_two_axes(table, flip, permutation) ==
  LET multiplier == [c \in 1..4 |-> IF c # flip + 1 /\ c # 4 THEN F(-1) ELSE F(1)]
      flipped == IF IsNumber(flip)
                 THEN [r \in 1..Len(table) |->
                         [c \in 1..4 |-> FMul(table[r][c], multiplier[c])]]
                 ELSE table
  IN  [r \in 1..Len(table) |->
         << Item(flipped[r], permutation[1]), Item(flipped[r], permutation[2]),
            Item(flipped[r], permutation[3]), Item(flipped[r], 3) >>]

\* the scanner branch: the table `grad` that is written
scanner_grad(table, flip, permutation) ==
  LET multiplier == [c \in 1..4 |-> IF c = flip + 1 THEN F(-1) ELSE F(1)]
      flipped == IF IsNumber(flip)
                 THEN [r \in 1..Len(table) |->
                         [c \in 1..4 |-> FMul(table[r][c], multiplier[c])]]
                 ELSE table
  IN  [r \in 1..Len(table) |->
         << Item(flipped[r], permutation[1]), Item(flipped[r], permutation[2]),
            Item(flipped[r], permutation[3]), Item(flipped[r], 3) >>]

\* grad[flip] = [ -v for v in grad[flip] ]
negate_row(table, flip) ==
  [table EXCEPT ![flip + 1] = [c \in 1..Len(@) |-> FNeg(@[c])]]

\* mutant: without a flip, the first row is negated
image_grad_none_flips(table, flip, permutation) ==
  LET flipped == negate_row(table, IF IsNumber(flip) THEN flip ELSE 0)
  IN  << Item(flipped, permutation[1]), Item(flipped, permutation[2]),
         Item(flipped, permutation[3]) >>

\* mutant: the rows are permuted before the flip is applied
image_grad_permute_first(table, flip, permutation) ==
  LET permuted == << Item(table, permutation[1]), Item(table, permutation[2]),
                     Item(table, permutation[3]) >>
  IN  IF IsNumber(flip) THEN negate_row(permuted, flip) ELSE permuted

\* mutant: the row after the one to flip is negated
image_grad_flips_next_row(table, flip, permutation) ==
  LET flipped == IF IsNumber(flip) THEN negate_row(table, (flip + 1) % 3) ELSE table
  IN  << Item(flipped, permutation[1]), Item(flipped, permutation[2]),
         Item(flipped, permutation[3]) >>

\* the image branch: the table `grad` that is written
image_grad(table, flip, permutation) ==
  LET flipped == IF IsNumber(flip) THEN negate_row(table, flip) ELSE table
  IN  << Item(flipped, permutation[1]), Item(flipped, permutation[2]),
         Item(flipped, permutation[3]) >>

\* mutant: no copy, so that grad and grad_fsl are the same list
fsl_without_copy(table, flip) ==
  IF IsNumber(flip) THEN negate_row(table, flip) ELSE table

\* copy.copy(grad_fsl) is a new list: the assignment to grad[flip] does not
\* reach grad_fsl.  This is the value of grad_fsl after the image branch.
fsl_after_copy(table, flip) == table

\* the lines written to the gradient file of a candidate
grad_lines(sep, table) ==
  [r \in 1..Len(table) |->
     join(sep, [c \in 1..Len(table[r]) |-> str_float(table[r][c])])]

----------------------------------------------------------------------------
(* The inputs: the tables loaded from grad.b and bvecs, and the options *)

NumDirections == 1 + 8 * MaxMag

\* A cyclic list of gradient directions: the zero vector of a b=0 volume,
\* then for each magnitude m the six signed axis vectors and two vectors
\* with three different components.
DirectionAt(j) ==
  IF j = 0 THEN << 0, 0, 0 >>
  ELSE LET m == ((j - 1) \div 8) + 1
           r == (j - 1) % 8
           s == IF r % 2 = 0 THEN 1 ELSE -1
       IN  IF r \div 2 = 0 THEN << s * m, 0, 0 >>
           ELSE IF r \div 2 = 1 THEN << 0, s * m, 0 >>
           ELSE IF r \div 2 = 2 THEN << 0, 0, s * m >>
           ELSE << s * m, s * (m + 1), s * (m + 2) >>

BValueAt(j) == IF j = 0 THEN 0 ELSE 1000 * (((j - 1) \div 8) + 1)

\* the combined table whose rows are the directions seed, seed + 1, ...
mrtrix_table(n, seed) ==
  [r \in 1..n |->
     LET j == (seed + r - 1) % NumDirections
     IN  << F(DirectionAt(j)[1]), F(DirectionAt(j)[2]), F(DirectionAt(j)[3]),
            F(BValueAt(j)) >>]

\* the split table whose columns are the directions seed, seed + 1, ...
fsl_table(n, seed) ==
  [a \in 1..3 |-> [c \in 1..n |-> F(DirectionAt((seed + c - 1) % NumDirections)[a])]]

fsl_bvals(n, seed) ==
  << [c \in 1..n |-> F(BValueAt((seed + c - 1) % NumDirections))] >>

\* path.fromUser: the path of a user file, seen from the scratch directory
from_user(p) == "/cwd/" \o p

\* line 30: the values of -number, the default and another one
NumberChoices == {10000, 500}

\* runs without -grad, -fslgrad and -mask
ArgChoices ==
  { [input |-> "dwi.mif", grad |-> "", fslgrad |-> << >>, mask |-> "",
     export_grad_mrtrix |-> m, export_grad_fsl |-> f, number |-> k] :
      m \in {"", "best.b"}, f \in {<< >>, << "best.bvecs", "best.bvals" >>},
      k \in NumberChoices }

\* app.parse() has rejected -export_grad_mrtrix together with -export_grad_fsl
ParsedArgs == { a \in ArgChoices : a.export_grad_mrtrix = "" \/ a.export_grad_fsl = << >> }

\* the scratch directory before the loop
scratch_files(n, seed_m, seed_f) ==
  [name \in {"data.mif", "mask.mif", "grad.b", "bvecs", "bvals"} |->
     CASE name = "grad.b" -> grad_lines(" ", mrtrix_table(n, seed_m))
       [] name = "bvecs" -> grad_lines(" ", fsl_table(n, seed_f))
       [] name = "bvals" -> grad_lines(" ", fsl_bvals(n, seed_f))
       [] OTHER -> << "mif" >>]

\* a split table of nrows rows of cols values; a fourth row repeats the third
split_table(nrows, cols) ==
  [a \in 1..nrows |->
     [c \in 1..cols |->
        F(DirectionAt((7 + c - 1) % NumDirections)[IF a > 3 THEN 3 ELSE a])]]

\* the combined tables a file grad.b may hold
CombinedTables == { mrtrix_table(r, 7) : r \in 1..(MaxVolumes + 1) }

\* the split tables a file bvecs may hold: matrices of 2 to 4 rows
SplitTables ==
  { split_table(k, c) : k \in 2..4, c \in 1..(MaxVolumes + 1) }

\* lines 73-85: the float matrix read from the lines of a file
load(lines, family) == CHOOSE table \in family : grad_lines(" ", table) = lines

\* mrinfo -fslgrad bvecs bvals -export_grad_mrtrix: the combined table of the
\* directions of a split table, as many rows as the first row has values
to_mrtrix(lines) == mrtrix_table(Len(load(lines, SplitTables)[1]), 7)

\* mrinfo -grad grad.b -export_grad_fsl: the split table of a combined table
to_fsl(lines) == fsl_table(Len(load(lines, CombinedTables)), 7)

\* mutant: only the import options are mutually exclusive
mutually_exclusive_imports_only(a) == a.grad # "" /\ a.fslgrad # << >>

\* lines 32-34: app.parse() ends the script when two options that were
\* flagged as mutually exclusive are both given
mutually_exclusive(a) ==
  \/ a.grad # "" /\ a.fslgrad # << >>
  \/ a.export_grad_mrtrix # "" /\ a.export_grad_fsl # << >>

\* Python's min() of a list that is not empty
min(list) == CHOOSE x \in {list[i] : i \in 1..Len(list)} :
               \A i \in 1..Len(list) : x <= list[i]

\* lines 37-40
size_rejected(dims) == Len(dims) # 4 \/ min(dims) = 1

\* mutant: only tables that are too small are rejected
table_rejected_too_small_only(gm, gf, n) ==
  \/ Len(gm) < n
  \/ Len(gf) < 3 \/ Len(gf[1]) < n

\* lines 87-90
table_rejected(gm, gf, n) ==
  \/ ~(Len(gm) = n)
  \/ ~(Len(gf) = 3) \/ ~(Len(gf[1]) = n)

\* path.toTemp: the path of a scratch file, seen from the user's directory
to_temp(p) == "/scratch/" \o p

\* image.headerField(app.args.input, 'size') asks mrinfo for the size
size_cmd(a) == "mrinfo " \o a.input \o " -size"

mrconvert_cmd(a) ==
  "mrconvert " \o a.input \o " " \o to_temp("data.mif")
    \o " -stride 0,0,0,1 -datatype float32"

mask_cmd(a) ==
  "mrconvert " \o from_user(a.mask) \o " " \o to_temp("mask.mif") \o " -datatype bit"

\* mutant: the combined table is always taken from the image header
grad_b_cmd_from_header(names) == "mrinfo data.mif -export_grad_mrtrix grad.b"

\* lines 61-65: the command that makes grad.b, given the names in the
\* scratch directory
grad_b_cmd(names) ==
  IF "bvecs" \in names
  THEN "mrinfo data.mif -fslgrad bvecs bvals -export_grad_mrtrix grad.b"
  ELSE "mrinfo data.mif -export_grad_mrtrix grad.b"

\* lines 67-71: the command that makes bvecs and bvals
bvecs_cmd(names) ==
  IF "grad.b" \in names
  THEN "mrinfo data.mif -grad grad.b -export_grad_fsl bvecs bvals"
  ELSE "mrinfo data.mif -export_grad_fsl bvecs bvals"

\* the commands of a run without -grad, -fslgrad and -mask, up to the loop
plain_commands(a) ==
  << size_cmd(a), mrconvert_cmd(a), grad_b_cmd({"data.mif"}),
     bvecs_cmd({"data.mif", "grad.b"}), "dwi2mask data.mif mask.mif" >>

\* The state at line 121, before the first candidate, for every table of the
\* family.  Both tables come from the header of the same image: they hold the
\* same directions, here for an image whose axes are the scanner's.
Init ==
  \E n \in 2..MaxVolumes, seed \in 0..(NumDirections - 1), a \in ParsedArgs :
    /\ user = [size |-> << 2, 2, 2, n >>, header |-> mrtrix_table(n, seed),
                grad |-> << >>, bvecs |-> << >>, bvals |-> << >>]
    /\ image_dimensions = << 2, 2, 2, n >>
    /\ tempdir = TRUE
    /\ commands = plain_commands(a)
    /\ pc = "write"
    /\ args = a
    /\ num_volumes = n
    /\ grad_mrtrix = mrtrix_table(n, seed)
    /\ grad_fsl = fsl_table(n, seed)
    /\ loaded = [grad_mrtrix |-> mrtrix_table(n, seed),
                  grad_fsl |-> fsl_table(n, seed),
                  files |-> scratch_files(n, seed, seed)]
    /\ loop = [flip |-> 1, permutation |-> 1, basis |-> 1]
    /\ grad = << >>
    /\ grad_option = ""
    /\ lengths = << >>
    /\ files = scratch_files(n, seed, seed)
    /\ last_cmd = ""
    /\ failed = ""
    /\ counts = [tckgen |-> 0, tckstats |-> 0, mrinfo |-> 0]
    /\ printed = << >>
    /\ ConfigureIdle /\ GuiIdle

----------------------------------------------------------------------------
(* The enumeration loop *)

NumCandidates == Len(axis_flips) * Len(axis_permutations) * Len(grad_basis)

flip == axis_flips[loop.flip]

permutation == axis_permutations[loop.permutation]

basis == grad_basis[loop.basis]

\* lines 127-163: build the candidate's table and write it to its file
WriteGrad ==
  /\ UNCHANGED start_vars /\ UNCHANGED outside_dwigradcheck
  /\ pc = "write"
  /\ IF basis = "scanner"
     THEN LET grad_path == "grad" \o suffix(flip, permutation, basis) \o ".b"
          IN  /\ grad' = scanner_grad(grad_mrtrix, flip, permutation)
              /\ files' = (grad_path :> grad_lines(",", grad')) @@ files
              /\ grad_option' = " -grad " \o grad_path
              /\ UNCHANGED grad_fsl
     ELSE LET grad_path == "bvecs" \o suffix(flip, permutation, basis)
          IN  /\ grad' = image_grad(grad_fsl, flip, permutation)
              /\ files' = (grad_path :> grad_lines(" ", grad')) @@ files
              /\ grad_option' = " -fslgrad " \o grad_path \o " bvals"
              /\ grad_fsl' = fsl_after_copy(grad_fsl, flip)
  /\ pc' = "tckgen"
  /\ UNCHANGED << args, num_volumes, grad_mrtrix, loaded, loop, lengths,
                  last_cmd, failed, counts, printed >>

\* mutant: the failure of a command is ignored
run_command_goes_on(cmd) ==
  /\ failed' = cmd
  /\ pc' = IF pc = "tckgen" THEN "tckstats" ELSE IF pc = "tckstats" THEN "write"
            ELSE "complete"

\* run.command when the command fails: the script ends with an error
run_command_fails(cmd) == pc' = "error" /\ failed' = cmd

number_option == " -select " \o ToString(args.number)

\* mutant: the number of tracks is always the default
tckgen_cmd_default_number ==
  "tckgen -algorithm tensor_det data.mif" \o grad_option
    \o " -seed_image mask.mif -mask mask.mif -select 10000"
    \o " -minlength 0 -downsample 5 tracks" \o suffix(flip, permutation, basis) \o ".tck"

tckgen_cmd ==
  "tckgen -algorithm tensor_det data.mif" \o grad_option
    \o " -seed_image mask.mif -mask mask.mif" \o number_option
    \o " -minlength 0 -downsample 5 tracks" \o suffix(flip, permutation, basis) \o ".tck"

\* mutant: the tracking experiment is left out
Tckgen_left_out ==
  /\ UNCHANGED start_vars /\ UNCHANGED outside_dwigradcheck
  /\ pc = "tckgen"
  /\ pc' = "tckstats"
  /\ UNCHANGED << args, num_volumes, grad_mrtrix, grad_fsl, loaded, loop, grad,
                  grad_option, lengths, files, last_cmd, failed, counts, printed >>

\* line 166: the tracking experiment; a failed command ends the script
Tckgen ==
  /\ UNCHANGED start_vars /\ UNCHANGED outside_dwigradcheck
  /\ pc = "tckgen"
  /\ last_cmd' = tckgen_cmd
  /\ counts' = [counts EXCEPT !.tckgen = @ + 1]
  /\ \E ok \in BOOLEAN :
       IF ok
       THEN /\ files' = (("tracks" \o suffix(flip, permutation, basis) \o ".tck")
                           :> << "tracks of" \o grad_option >>) @@ files
            /\ pc' = "tckstats"
            /\ UNCHANGED failed
       ELSE /\ run_command_fails(tckgen_cmd)
            /\ UNCHANGED files
  /\ UNCHANGED << args, num_volumes, grad_mrtrix, grad_fsl, loaded, loop, grad,
                  grad_option, lengths, printed >>

tckstats_cmd ==
  "tckstats tracks" \o suffix(flip, permutation, basis) \o ".tck -output mean -ignorezero"

\* The mean length tckstats reports for candidate k (counted from 0) when no
\* two candidates have the same: it depends on the candidate and on the
\* table, and is never TieLength.
GenericLength(k, table) ==
  LET shift == table[1][1].mag + 2 * table[1][2].mag + 3 * table[1][3].mag
      g == (5 * k + shift) % NumCandidates
  IN  IF g >= TieLength THEN g + 1 ELSE g

\* mutant: the basis loop is not started again for the next permutation
next_loop_basis_kept ==
  IF loop.basis < Len(grad_basis) THEN [loop EXCEPT !.basis = @ + 1]
  ELSE IF loop.permutation < Len(axis_permutations)
       THEN [loop EXCEPT !.permutation = @ + 1]
       ELSE [loop EXCEPT !.flip = @ + 1, !.permutation = 1, !.basis = 1]

\* mutant: the loops are nested the other way round, flip innermost
next_loop_flip_inner ==
  IF loop.flip < Len(axis_flips) THEN [loop EXCEPT !.flip = @ + 1]
  ELSE IF loop.permutation < Len(axis_permutations)
       THEN [loop EXCEPT !.permutation = @ + 1, !.flip = 1]
       ELSE [loop EXCEPT !.basis = @ + 1, !.permutation = 1, !.flip = 1]

\* the for statements: the next candidate, basis innermost
next_loop ==
  IF loop.basis < Len(grad_basis) THEN [loop EXCEPT !.basis = @ + 1]
  ELSE IF loop.permutation < Len(axis_permutations)
       THEN [loop EXCEPT !.permutation = @ + 1, !.basis = 1]
       ELSE [loop EXCEPT !.flip = @ + 1, !.permutation = 1, !.basis = 1]

last_candidate ==
  /\ loop.flip = Len(axis_flips)
  /\ loop.permutation = Len(axis_permutations)
  /\ loop.basis = Len(grad_basis)

\* lines 169-172: the mean length of the tracks, appended to the results
Tckstats ==
  /\ UNCHANGED start_vars /\ UNCHANGED outside_dwigradcheck
  /\ pc = "tckstats"
  /\ last_cmd' = tckstats_cmd
  /\ counts' = [counts EXCEPT !.tckstats = @ + 1]
  /\ \E ok \in BOOLEAN :
       IF ok
       THEN LET meanlength == GenericLength(Len(lengths), grad_mrtrix)
            IN  /\ lengths' = Append(lengths, << meanlength, flip, permutation, basis >>)
                /\ IF last_candidate
                   THEN pc' = "sort" /\ UNCHANGED loop
                   ELSE pc' = "write" /\ loop' = next_loop
                /\ UNCHANGED failed
       ELSE /\ run_command_fails(tckstats_cmd)
            /\ UNCHANGED << lengths, loop >>
  /\ UNCHANGED << args, num_volumes, grad_mrtrix, grad_fsl, loaded, grad,
                  grad_option, files, printed >>

----------------------------------------------------------------------------
(* The ranking: lengths.sort() and lengths.reverse() *)

\* The interpreter that `python` names is Python 2 or Python 3.
PythonVersions == {2, 3}

\* tuple < tuple for two permutations
tuple_less(p, q) ==
  \E i \in 1..3 : p[i] < q[i] /\ \A j \in 1..(i - 1) : p[j] = q[j]

\* str < str for two entries of grad_basis: 'image' < 'scanner'
str_less(a, b) == a = "image" /\ b = "scanner"

\* flip < flip in Python 2, where a number is less than any string
flip_less(f, g) ==
  IF IsNumber(f) /\ IsNumber(g) THEN f < g ELSE IsNumber(f) /\ ~IsNumber(g)

\* list < list for two results in Python 2: the first items that differ decide
result_less(a, b) ==
  IF a[1] # b[1] THEN a[1] < b[1]
  ELSE IF a[2] # b[2] THEN flip_less(a[2], b[2])
  ELSE IF a[3] # b[3] THEN tuple_less(a[3], b[3])
  ELSE str_less(a[4], b[4])

\* list < list in Python 3 raises TypeError when it gets to compare 'none'
\* with a number: equal mean lengths, one flip a string and the other a number
compare_raises(a, b) == a[1] = b[1] /\ IsNumber(a[2]) # IsNumber(b[2])

\* No two results are equal, so the sort has to compare every two results
\* that end up next to each other: it raises exactly when some two results
\* of equal mean length have flips of different types.
sort_raises(list) ==
  \E i, j \in 1..Len(list) : compare_raises(list[i], list[j])

\* list.sort(): ascending.  No two results are equal, so that the order
\* result_less alone decides the sorted list.
sort(list) == SortSeq(list, result_less)

\* mutant: the list is left in ascending order
reverse_forgotten(list) == list

\* list.reverse()
reverse(list) == [i \in 1..Len(list) |-> list[Len(list) + 1 - i]]

\* lines 176-177
Sort ==
  /\ UNCHANGED start_vars /\ UNCHANGED outside_dwigradcheck
  /\ pc = "sort"
  /\ \E python \in PythonVersions :
       IF python = 3 /\ sort_raises(lengths)
       THEN pc' = "TypeError" /\ UNCHANGED lengths
       ELSE pc' = "report" /\ lengths' = reverse(sort(lengths))
  /\ UNCHANGED << args, num_volumes, grad_mrtrix, grad_fsl, loaded, loop, grad,
                  grad_option, files, last_cmd, failed, counts, printed >>

----------------------------------------------------------------------------
(* The report and the export *)

\* "{:5.2f}".format of a mean length with an integral value
format_length(x) ==
  (IF x < 10 THEN " " ELSE "") \o ToString(x) \o ".00"

\* "{:4d}".format(flip), or the string 'none'
flip_str(f) == IF IsNumber(f) THEN "   " \o ToString(f) ELSE "none"

\* str() of a permutation: '(0, 1, 2)'
str_tuple(p) == "(" \o join(", ", [i \in 1..3 |-> ToString(p[i])]) \o ")"

\* mutant: the basis is left out of the row
report_line_without_basis(line) ==
  format_length(line[1]) \o "         " \o flip_str(line[2])
    \o "                " \o str_tuple(line[3])

report_line(line) ==
  format_length(line[1]) \o "         " \o flip_str(line[2])
    \o "                " \o str_tuple(line[3]) \o "           " \o line[4]

\* lines 181-187
Report ==
  /\ UNCHANGED start_vars /\ UNCHANGED outside_dwigradcheck
  /\ pc = "report"
  /\ printed' = << "Mean length     Axis flipped    Axis permutations    Axis basis" >>
                  \o [i \in 1..Len(lengths) |-> report_line(lengths[i])]
  /\ pc' = "export"
  /\ UNCHANGED << args, num_volumes, grad_mrtrix, grad_fsl, loaded, loop, grad,
                  grad_option, lengths, files, last_cmd, failed, counts >>

grad_export_option ==
  IF args.export_grad_mrtrix # ""
  THEN " -export_grad_mrtrix " \o from_user(args.export_grad_mrtrix)
  ELSE IF args.export_grad_fsl # << >>
       THEN " -export_grad_fsl " \o from_user(args.export_grad_fsl[1])
              \o " " \o from_user(args.export_grad_fsl[2])
       ELSE ""

grad_import_option(best) ==
  IF best[4] = "scanner"
  THEN " -grad grad" \o suffix(best[2], best[3], best[4]) \o ".b"
  ELSE " -fslgrad bvecs" \o suffix(best[2], best[3], best[4]) \o " bvals"

\* mutant: the last result is taken for the best
mrinfo_cmd_of_last ==
  "mrinfo data.mif" \o grad_import_option(lengths[Len(lengths)]) \o grad_export_option

\* best = lengths[0]
mrinfo_cmd ==
  "mrinfo data.mif" \o grad_import_option(lengths[1]) \o grad_export_option

\* lines 192-207
Export ==
  /\ UNCHANGED start_vars /\ UNCHANGED outside_dwigradcheck
  /\ pc = "export"
  /\ IF grad_export_option # ""
     THEN /\ last_cmd' = mrinfo_cmd
          /\ counts' = [counts EXCEPT !.mrinfo = @ + 1]
          /\ \E ok \in BOOLEAN :
               IF ok THEN pc' = "complete" /\ UNCHANGED failed
               ELSE run_command_fails(mrinfo_cmd)
     ELSE /\ pc' = "complete"
          /\ UNCHANGED << last_cmd, failed, counts >>
  /\ UNCHANGED << args, num_volumes, grad_mrtrix, grad_fsl, loaded, loop, grad,
                  grad_option, lengths, files, printed >>

----------------------------------------------------------------------------

Next == WriteGrad \/ Tckgen \/ Tckstats \/ Sort \/ Report \/ Export

Spec == Init /\ [][Next]_vars

----------------------------------------------------------------------------
(* The part before the loop: lines 34-98 *)

MaxSize == 2      \* the spatial dimensions of the image are 0..MaxSize

\* the sizes mrinfo may report: three, four or five dimensions
SizeChoices ==
  { << x, y, z, n >> : x \in 0..MaxSize, y \in 0..MaxSize, z \in 0..MaxSize,
                       n \in 0..(MaxVolumes + 1) }
    \cup { << 2, 2, 2 >>, << 2, 2, 2, 2, 2 >> }

\* the options, with every choice of import, export and mask
StartArgs ==
  { [input |-> "dwi.mif", grad |-> g, fslgrad |-> f, mask |-> m,
     export_grad_mrtrix |-> em, export_grad_fsl |-> ef, number |-> 10000] :
      g \in {"", "user.b"}, f \in {<< >>, << "user.bvecs", "user.bvals" >>},
      m \in {"", "brain.mif"},
      em \in {"", "best.b"}, ef \in {<< >>, << "best.bvecs", "best.bvals" >>} }

\* what the user gives to a run with the options a: the files that -grad and
\* -fslgrad name hold any table; without them the image header holds any
UserChoices(a) ==
  { [size |-> d, header |-> h, grad |-> g, bvecs |-> v, bvals |-> b] :
      d \in SizeChoices,
      h \in IF a.grad = "" /\ a.fslgrad = << >> THEN CombinedTables
            ELSE {mrtrix_table(2, 7)},
      g \in IF a.grad # "" /\ a.fslgrad = << >>
            THEN {grad_lines(" ", t) : t \in CombinedTables}
            ELSE IF a.grad # "" THEN {grad_lines(" ", mrtrix_table(2, 7))} ELSE {<< >>},
      v \in IF a.fslgrad # << >> /\ a.grad = ""
            THEN {grad_lines(" ", t) : t \in SplitTables}
            ELSE IF a.fslgrad # << >> THEN {grad_lines(" ", fsl_table(2, 7))} ELSE {<< >>},
      b \in IF a.fslgrad # << >> THEN {grad_lines(" ", fsl_bvals(2, 7))} ELSE {<< >>} }

\* the state at line 34, before app.parse()
InitStart ==
  \E a \in StartArgs :
    \E u \in UserChoices(a) :
      /\ user = u
      /\ image_dimensions = << >>
      /\ tempdir = FALSE
      /\ commands = << >>
      /\ pc = "parse"
      /\ args = a
      /\ num_volumes = 0
      /\ grad_mrtrix = << >>
      /\ grad_fsl = << >>
      /\ loaded = [grad_mrtrix |-> << >>, grad_fsl |-> << >>, files |-> << >>]
      /\ loop = [flip |-> 1, permutation |-> 1, basis |-> 1]
      /\ grad = << >>
      /\ grad_option = ""
      /\ lengths = << >>
      /\ files = << >>
      /\ last_cmd = ""
      /\ failed = ""
      /\ counts = [tckgen |-> 0, tckstats |-> 0, mrinfo |-> 0]
      /\ printed = << >>
      /\ ConfigureIdle /\ GuiIdle

\* the variables of the loop and of what follows it
loop_vars == << loop, grad, grad_option, lengths, last_cmd, counts, printed >>

\* app.error: the script ends with a message
app_error(message) == pc' = "error" /\ failed' = message

\* line 34
Parse ==
  /\ pc = "parse"
  /\ IF mutually_exclusive(args)
     THEN app_error("mutually exclusive options")
     ELSE pc' = "size" /\ UNCHANGED failed
  /\ UNCHANGED << user, image_dimensions, tempdir, commands, args, num_volumes,
                  grad_mrtrix, grad_fsl, loaded, files >>
  /\ UNCHANGED loop_vars /\ UNCHANGED outside_dwigradcheck

\* lines 36-41
Size ==
  /\ pc = "size"
  /\ commands' = Append(commands, size_cmd(args))
  /\ image_dimensions' = user.size
  /\ IF Len(image_dimensions') # 4
     THEN app_error("Input image must be a 4D image") /\ UNCHANGED num_volumes
     ELSE IF size_rejected(image_dimensions')
          THEN /\ app_error("Cannot perform tractography on an image with a unity spatial dimension")
               /\ UNCHANGED num_volumes
          ELSE /\ num_volumes' = Item(image_dimensions', 3)
               /\ pc' = "tempdir"
               /\ UNCHANGED failed
  /\ UNCHANGED << user, tempdir, args, grad_mrtrix, grad_fsl, loaded, files >>
  /\ UNCHANGED loop_vars /\ UNCHANGED outside_dwigradcheck

\* line 43
MakeTempDir ==
  /\ pc = "tempdir"
  /\ tempdir' = TRUE
  /\ pc' = "mrconvert"
  /\ UNCHANGED << user, image_dimensions, commands, args, num_volumes, grad_mrtrix,
                  grad_fsl, loaded, files, failed >>
  /\ UNCHANGED loop_vars /\ UNCHANGED outside_dwigradcheck

\* line 46
Mrconvert ==
  /\ pc = "mrconvert"
  /\ commands' = Append(commands, mrconvert_cmd(args))
  /\ \E ok \in BOOLEAN :
       IF ok
       THEN /\ files' = ("data.mif" :> << "mif" >>) @@ files
            /\ pc' = "import"
            /\ UNCHANGED failed
       ELSE run_command_fails(mrconvert_cmd(args)) /\ UNCHANGED files
  /\ UNCHANGED << user, image_dimensions, tempdir, args, num_volumes, grad_mrtrix,
                  grad_fsl, loaded >>
  /\ UNCHANGED loop_vars /\ UNCHANGED outside_dwigradcheck

\* lines 48-52
Import ==
  /\ pc = "import"
  /\ files' = IF args.grad # "" THEN ("grad.b" :> user.grad) @@ files
              ELSE IF args.fslgrad # << >>
                   THEN ("bvecs" :> user.bvecs) @@ ("bvals" :> user.bvals) @@ files
                   ELSE files
  /\ pc' = "mask"
  /\ UNCHANGED << user, image_dimensions, tempdir, commands, args, num_volumes,
                  grad_mrtrix, grad_fsl, loaded, failed >>
  /\ UNCHANGED loop_vars /\ UNCHANGED outside_dwigradcheck

\* lines 53-56
Mask ==
  /\ pc = "mask"
  /\ IF args.mask # ""
     THEN /\ commands' = Append(commands, mask_cmd(args))
          /\ \E ok \in BOOLEAN :
               IF ok
               THEN /\ files' = ("mask.mif" :> << "mif" >>) @@ files
                    /\ pc' = "grad.b"
                    /\ UNCHANGED failed
               ELSE run_command_fails(mask_cmd(args)) /\ UNCHANGED files
     ELSE pc' = "grad.b" /\ UNCHANGED << commands, files, failed >>
  /\ UNCHANGED << user, image_dimensions, tempdir, args, num_volumes, grad_mrtrix,
                  grad_fsl, loaded >>
  /\ UNCHANGED loop_vars /\ UNCHANGED outside_dwigradcheck

\* lines 61-65
ExportGradMrtrix ==
  /\ pc = "grad.b"
  /\ IF "grad.b" \notin DOMAIN files
     THEN /\ commands' = Append(commands, grad_b_cmd(DOMAIN files))
          /\ \E ok \in BOOLEAN :
               IF ok
               THEN /\ files' = ("grad.b" :> grad_lines(" ",
                                     IF "bvecs" \in DOMAIN files
                                     THEN to_mrtrix(files["bvecs"]) ELSE user.header))
                                  @@ files
                    /\ pc' = "bvecs"
                    /\ UNCHANGED failed
               ELSE run_command_fails(grad_b_cmd(DOMAIN files)) /\ UNCHANGED files
     ELSE pc' = "bvecs" /\ UNCHANGED << commands, files, failed >>
  /\ UNCHANGED << user, image_dimensions, tempdir, args, num_volumes, grad_mrtrix,
                  grad_fsl, loaded >>
  /\ UNCHANGED loop_vars /\ UNCHANGED outside_dwigradcheck

\* lines 67-71
ExportGradFsl ==
  /\ pc = "bvecs"
  /\ IF "bvecs" \notin DOMAIN files
     THEN /\ commands' = Append(commands, bvecs_cmd(DOMAIN files))
          /\ \E ok \in BOOLEAN :
               IF ok
               THEN LET table == IF "grad.b" \in DOMAIN files
                                 THEN to_fsl(files["grad.b"])
                                 ELSE fsl_table(Len(user.header), 7)
                    IN  /\ files' = ("bvecs" :> grad_lines(" ", table))
                                      @@ ("bvals" :> grad_lines(" ", fsl_bvals(Len(table[1]), 7)))
                                      @@ files
                        /\ pc' = "load"
                        /\ UNCHANGED failed
               ELSE run_command_fails(bvecs_cmd(DOMAIN files)) /\ UNCHANGED files
     ELSE pc' = "load" /\ UNCHANGED << commands, files, failed >>
  /\ UNCHANGED << user, image_dimensions, tempdir, args, num_volumes, grad_mrtrix,
                  grad_fsl, loaded >>
  /\ UNCHANGED loop_vars /\ UNCHANGED outside_dwigradcheck

\* lines 73-90
Load ==
  /\ pc = "load"
  /\ grad_mrtrix' = load(files["grad.b"], CombinedTables)
  /\ grad_fsl' = load(files["bvecs"], SplitTables)
  /\ loaded' = [grad_mrtrix |-> grad_mrtrix', grad_fsl |-> grad_fsl', files |-> files]
  /\ IF table_rejected(grad_mrtrix', grad_fsl', num_volumes)
     THEN app_error(IF ~(Len(grad_mrtrix') = num_volumes)
                    THEN "Number of entries in gradient table does not match number of DWI volumes"
                    ELSE "Internal error (inconsistent gradient table storage)")
     ELSE pc' = "dwi2mask" /\ UNCHANGED failed
  /\ UNCHANGED << user, image_dimensions, tempdir, commands, args, num_volumes, files >>
  /\ UNCHANGED loop_vars /\ UNCHANGED outside_dwigradcheck

\* mutant: dwi2mask is run whether or not there is a mask
Dwi2mask_always ==
  /\ pc = "dwi2mask"
  /\ IF TRUE
     THEN /\ commands' = Append(commands, "dwi2mask data.mif mask.mif")
          /\ \E ok \in BOOLEAN :
               IF ok
               THEN /\ files' = ("mask.mif" :> << "mif" >>) @@ files
                    /\ loaded' = [loaded EXCEPT !.files = files']
                    /\ pc' = "write"
                    /\ UNCHANGED failed
               ELSE /\ run_command_fails("dwi2mask data.mif mask.mif")
                    /\ UNCHANGED << files, loaded >>
     ELSE pc' = "write" /\ UNCHANGED << commands, files, loaded, failed >>
  /\ UNCHANGED << user, image_dimensions, tempdir, args, num_volumes, grad_mrtrix,
                  grad_fsl >>
  /\ UNCHANGED loop_vars /\ UNCHANGED outside_dwigradcheck

\* lines 93-121
Dwi2mask ==
  /\ pc = "dwi2mask"
  /\ IF "mask.mif" \notin DOMAIN files
     THEN /\ commands' = Append(commands, "dwi2mask data.mif mask.mif")
          /\ \E ok \in BOOLEAN :
               IF ok
               THEN /\ files' = ("mask.mif" :> << "mif" >>) @@ files
                    /\ loaded' = [loaded EXCEPT !.files = files']
                    /\ pc' = "write"
                    /\ UNCHANGED failed
               ELSE /\ run_command_fails("dwi2mask data.mif mask.mif")
                    /\ UNCHANGED << files, loaded >>
     ELSE pc' = "write" /\ UNCHANGED << commands, files, loaded, failed >>
  /\ UNCHANGED << user, image_dimensions, tempdir, args, num_volumes, grad_mrtrix,
                  grad_fsl >>
  /\ UNCHANGED loop_vars /\ UNCHANGED outside_dwigradcheck

NextStart ==
  \/ Parse \/ Size \/ MakeTempDir \/ Mrconvert \/ Import \/ Mask
  \/ ExportGradMrtrix \/ ExportGradFsl \/ Load \/ Dwi2mask

SpecStart == InitStart /\ [][NextStart]_vars

\* A run of SpecStart without -grad, -fslgrad and -mask, on an image of
\* 2 x 2 x 2 voxels, gets to the loop in a state Init starts from.
StartAgrees ==
  (/\ pc = "write" /\ args \in ParsedArgs /\ args \in ArgChoices
   /\ user.size = << 2, 2, 2, num_volumes >> /\ num_volumes \in 2..MaxVolumes)
  => /\ grad_mrtrix = mrtrix_table(num_volumes, 7)
     /\ grad_fsl = fsl_table(num_volumes, 7)
     /\ files = scratch_files(num_volumes, 7, 7)
     /\ loaded = [grad_mrtrix |-> grad_mrtrix, grad_fsl |-> grad_fsl, files |-> files]
     /\ commands = plain_commands(args)
     /\ image_dimensions = user.size /\ tempdir
     /\ user.header = grad_mrtrix
     /\ loop = [flip |-> 1, permutation |-> 1, basis |-> 1]
     /\ grad = << >> /\ grad_option = "" /\ lengths = << >> /\ last_cmd = ""
     /\ failed = "" /\ printed = << >>
     /\ counts = [tckgen |-> 0, tckstats |-> 0, mrinfo |-> 0]

----------------------------------------------------------------------------
(* The ranking of results lists with tied mean lengths.  The state at line   *)
(* 176, after a loop in which the commands succeeded and tckstats reported   *)
(* the mean length TieLength for the candidates of `tied`.                   *)

\* candidate k of the loop, counted from 0
candidate(k) ==
  << axis_flips[(k \div (Len(axis_permutations) * Len(grad_basis))) + 1],
     axis_permutations[((k \div Len(grad_basis)) % Len(axis_permutations)) + 1],
     grad_basis[(k % Len(grad_basis)) + 1] >>

candidate_grad(k) ==
  IF candidate(k)[3] = "scanner"
  THEN scanner_grad(mrtrix_table(2, 7), candidate(k)[1], candidate(k)[2])
  ELSE image_grad(fsl_table(2, 7), candidate(k)[1], candidate(k)[2])

candidate_path(k) ==
  IF candidate(k)[3] = "scanner"
  THEN "grad" \o suffix(candidate(k)[1], candidate(k)[2], candidate(k)[3]) \o ".b"
  ELSE "bvecs" \o suffix(candidate(k)[1], candidate(k)[2], candidate(k)[3])

candidate_option(k) ==
  IF candidate(k)[3] = "scanner" THEN " -grad " \o candidate_path(k)
  ELSE " -fslgrad " \o candidate_path(k) \o " bvals"

candidate_tracks(k) ==
  "tracks" \o suffix(candidate(k)[1], candidate(k)[2], candidate(k)[3]) \o ".tck"

\* the scratch directory after the loop
loop_files ==
  LET paths == [k \in 0..(NumCandidates - 1) |-> candidate_path(k)]
      tracks == [k \in 0..(NumCandidates - 1) |-> candidate_tracks(k)]
      names == {paths[k] : k \in 0..(NumCandidates - 1)}
                 \cup {tracks[k] : k \in 0..(NumCandidates - 1)}
                 \cup DOMAIN scratch_files(2, 7, 7)
  IN  [name \in names |->
         IF \E k \in 0..(NumCandidates - 1) : paths[k] = name
         THEN LET k == CHOOSE c \in 0..(NumCandidates - 1) : paths[c] = name
              IN  grad_lines(IF candidate(k)[3] = "scanner" THEN "," ELSE " ",
                             candidate_grad(k))
         ELSE IF \E k \in 0..(NumCandidates - 1) : tracks[k] = name
              THEN LET k == CHOOSE c \in 0..(NumCandidates - 1) : tracks[c] = name
                   IN  << "tracks of" \o candidate_option(k) >>
              ELSE scratch_files(2, 7, 7)[name]]

\* the sets of up to MaxTies candidates evenly spaced in the order of
\* generation: every single candidate, every two candidates, ...
TiedSets ==
  { {first + step * m : m \in 0..(n - 1)} :
      << first, step, n >> \in
        { t \in (0..(NumCandidates - 1)) \X (1..(NumCandidates - 1)) \X (1..MaxTies) :
            t[1] + t[2] * (t[3] - 1) <= NumCandidates - 1 } }

InitRank ==
  \E tied \in TiedSets, a \in ParsedArgs :
    /\ user = [size |-> << 2, 2, 2, 2 >>, header |-> mrtrix_table(2, 7),
                grad |-> << >>, bvecs |-> << >>, bvals |-> << >>]
    /\ image_dimensions = << 2, 2, 2, 2 >>
    /\ tempdir = TRUE
    /\ commands = plain_commands(a)
    /\ pc = "sort"
    /\ args = a
    /\ num_volumes = 2
    /\ grad_mrtrix = mrtrix_table(2, 7)
    /\ grad_fsl = fsl_table(2, 7)
    /\ loaded = [grad_mrtrix |-> mrtrix_table(2, 7), grad_fsl |-> fsl_table(2, 7),
                  files |-> scratch_files(2, 7, 7)]
    /\ loop = [flip |-> Len(axis_flips), permutation |-> Len(axis_permutations),
                basis |-> Len(grad_basis)]
    /\ grad = candidate_grad(NumCandidates - 1)
    /\ grad_option = candidate_option(NumCandidates - 1)
    /\ lengths = [k \in 1..NumCandidates |->
                    << IF (k - 1) \in tied THEN TieLength
                       ELSE GenericLength(k - 1, mrtrix_table(2, 7)) >>
                      \o candidate(k - 1)]
    /\ files = loop_files
    /\ last_cmd = "tckstats " \o candidate_tracks(NumCandidates - 1)
                     \o " -output mean -ignorezero"
    /\ failed = ""
    /\ counts = [tckgen |-> NumCandidates, tckstats |-> NumCandidates, mrinfo |-> 0]
    /\ printed = << >>
    /\ ConfigureIdle /\ GuiIdle

NextRank == Sort \/ Report \/ Export

SpecRank == InitRank /\ [][NextRank]_vars

\* The loop of Spec ends in the state InitRank starts from, but for the
\* mean lengths: same table, same files, same counts.
AfterLoopAgrees ==
  (pc = "sort" /\ loaded.grad_mrtrix = mrtrix_table(2, 7)
     /\ loaded.grad_fsl = fsl_table(2, 7) /\ num_volumes = 2)
  => /\ lengths = [k \in 1..NumCandidates |->
                     << GenericLength(k - 1, mrtrix_table(2, 7)) >> \o candidate(k - 1)]
     /\ files = loop_files
     /\ grad = candidate_grad(NumCandidates - 1)
     /\ grad_option = candidate_option(NumCandidates - 1)
     /\ last_cmd = "tckstats " \o candidate_tracks(NumCandidates - 1)
                      \o " -output mean -ignorezero"
     /\ counts = [tckgen |-> NumCandidates, tckstats |-> NumCandidates, mrinfo |-> 0]
     /\ loop = [flip |-> Len(axis_flips), permutation |-> Len(axis_permutations),
                 basis |-> Len(grad_basis)]
     /\ grad_mrtrix = loaded.grad_mrtrix /\ grad_fsl = loaded.grad_fsl
     /\ failed = "" /\ printed = << >>

----------------------------------------------------------------------------
(* The configure script.  A string that the script takes apart (an option, *)
(* tested with startswith) is a sequence of characters.                    *)

MaxArgs == 2      \* at most MaxArgs arguments on the command line

\* str.startswith
startswith(string, prefix) ==
  Len(prefix) <= Len(string) /\ SubSeq(string, 1, Len(prefix)) = prefix

\* lines 162-177: the options in the order the elif chain tests them
option_names ==
  << "debug", "dev", "assert", "profile", "nogui", "noortho", "noshared",
     "static", "verbose", "R", "openmp" >>

option_strings ==
  << << "-", "d", "e", "b", "u", "g" >>,
     << "-", "d", "e", "v" >>,
     << "-", "a", "s", "s", "e", "r", "t" >>,
     << "-", "p", "r", "o", "f", "i", "l", "e" >>,
     << "-", "n", "o", "g", "u", "i" >>,
     << "-", "n", "o", "o", "r", "t", "h", "o" >>,
     << "-", "n", "o", "s", "h", "a", "r", "e", "d" >>,
     << "-", "s", "t", "a", "t", "i", "c" >>,
     << "-", "v", "e", "r", "b", "o", "s", "e" >>,
     << "-", "R" >>,
     << "-", "o", "p", "e", "n", "m", "p" >>
  >>

\* an elif chain in which the last option that matches wins
option_last_tested(arg) ==
  LET matching == { i \in 1..Len(option_strings) : startswith(option_strings[i], arg) }
  IN  IF matching = {} THEN "usage"
      ELSE option_names[CHOOSE i \in matching : \A j \in matching : i >= j]

\* lines 162-180: the branch of the elif chain an argument takes, "usage"
\* for the else branch
option(arg) ==
  LET matching == { i \in 1..Len(option_strings) : startswith(option_strings[i], arg) }
  IN  IF matching = {} THEN "usage"
      ELSE option_names[CHOOSE i \in matching : \A j \in matching : i <= j]

\* the arguments a command line is made of: one for each option, spelt
\* in full or cut short (-de, -dev, -a, -p, -no, -noo, -nos, -static, -v, -R,
\* -o), the argument - that begins every option, and -x that begins none
ArgChoices_configure ==
  { << "-", "d", "e" >>,
    << "-", "d", "e", "v" >>,
    << "-", "a" >>,
    << "-", "p" >>,
    << "-", "n", "o" >>,
    << "-", "n", "o", "o" >>,
    << "-", "n", "o", "s" >>,
    << "-", "s", "t", "a", "t", "i", "c" >>,
    << "-", "v" >>,
    << "-", "R" >>,
    << "-", "o" >>,
    << "-" >>,
    << "-", "x" >> }

\* the command lines of at most MaxArgs arguments
ArgvChoices ==
  UNION { [1..n -> ArgChoices_configure] : n \in 0..MaxArgs }

\* line 510-511: the systems the script has a branch for
Systems == {"linux", "windows", "darwin"}

\* the values of the environment variable CXX, "" when it is not set
CXXChoices == {"", "g++-5.5", "ccache g++"}

\* the values of the environment variable LD, "" when it is not set
LDChoices == {"", "ld.gold"}

\* shlex.split of the values of CXX and LD
shlex_split(value) ==
  CASE value = "g++-5.5" -> << "g++-5.5" >>
    [] value = "ccache g++" -> << "ccache", "g++" >>
    [] value = "ld.gold" -> << "ld.gold" >>

\* line 242
cxx_args == << "-c", "CFLAGS", "SRC", "-o", "OBJECT" >>

\* line 245
ld_args == << "OBJECTS", "LDFLAGS", "-o", "EXECUTABLE" >>

\* line 251
ld_lib_args == << "OBJECTS", "LDLIB_FLAGS", "-o", "LIB" >>

\* lines 241 and 519-520: the candidates when CXX is not set
platform_cxx(sys) ==
  IF sys = "windows" THEN << "g++", "clang++" >> ELSE << "clang++", "g++" >>

\* what the probes of a candidate may give: the version probe fails (lines
\* 586-592), the C++11 test raises CompileError, LinkError or RuntimeError
\* (line 612), passes (lines 610-611), or raises another exception (line 614)
Outcomes == {"not found", "test failed", "ok", "unexpected"}

\* the state of dwigradcheck while the configure script runs
DwigradcheckIdle ==
  /\ user = [size |-> << >>, header |-> << >>, grad |-> << >>, bvecs |-> << >>,
             bvals |-> << >>]
  /\ image_dimensions = << >>
  /\ tempdir = FALSE
  /\ commands = << >>
  /\ pc = "idle"
  /\ args = [input |-> "", grad |-> "", fslgrad |-> << >>, mask |-> "",
             export_grad_mrtrix |-> "", export_grad_fsl |-> << >>, number |-> 10000]
  /\ num_volumes = 0
  /\ grad_mrtrix = << >>
  /\ grad_fsl = << >>
  /\ loaded = [grad_mrtrix |-> << >>, grad_fsl |-> << >>, files |-> << >>]
  /\ loop = [flip |-> 1, permutation |-> 1, basis |-> 1]
  /\ grad = << >>
  /\ grad_option = ""
  /\ lengths = << >>
  /\ files = << >>
  /\ last_cmd = ""
  /\ failed = ""
  /\ counts = [tckgen |-> 0, tckstats |-> 0, mrinfo |-> 0]
  /\ printed = << >>

\* the variables of dwigradcheck
dwigradcheck_vars ==
  << user, image_dimensions, tempdir, commands, pc, args, num_volumes, grad_mrtrix,
     grad_fsl, loaded, loop, grad, grad_option, lengths, files, last_cmd, failed,
     counts, printed >>

\* the variables the configure script does not touch
outside_configure == << dwigradcheck_vars, gui_vars >>

\* the state at line 161, before the first argument is looked at
InitConfigure ==
  \E a \in ArgvChoices, sys \in Systems, c \in CXXChoices, l \in LDChoices :
    /\ argv = a /\ arg_index = 0
    /\ NoOptions
    /\ stdout = "" /\ exit_status = running /\ logfile = "closed"
    /\ system = sys /\ environ = [CXX |-> c, LD |-> l]
    /\ cxx = << >> /\ cxx_index = 0 /\ cpp = << >> /\ ld = << >>
    /\ ld_cmdline = << >> /\ ld_lib = << >>
    /\ config_report = << >> /\ config = << >>
    /\ position = "options" /\ stderr = ""
    /\ DwigradcheckIdle /\ GuiIdle

\* lines 196-201
report(message) == config_report' = Append(config_report, message)

\* lines 203-207: the script ends with a message on standard error
error(message) == position' = "exit" /\ stderr' = message /\ exit_status' = 1

\* lines 161-180: one turn of the loop over the arguments
ParseArg ==
  /\ position = "options" /\ arg_index < Len(argv)
  /\ LET o == option(argv[arg_index + 1])
     IN  /\ arg_index' = arg_index + 1
         /\ debug' = (debug \/ o = "debug")
         /\ dev' = (dev \/ o = "dev")
         /\ asserts' = (asserts \/ o = "assert")
         /\ profile' = (profile \/ o = "profile")
         /\ nogui' = (nogui \/ o \in {"nogui", "R"})
         /\ sh_basis_def' = IF o = "noortho" THEN "-DUSE_NON_ORTHONORMAL_SH_BASIS"
                            ELSE sh_basis_def
         /\ noshared' = (noshared \/ o \in {"noshared", "static"})
         /\ static' = (static \/ o = "static")
         /\ verbose' = (verbose \/ o = "verbose")
         /\ R_module' = (R_module \/ o = "R")
         /\ openmp' = (openmp \/ o = "openmp")
         /\ IF o = "usage"
            THEN position' = "exit" /\ stdout' = "usage_string" /\ exit_status' = 1
            ELSE UNCHANGED << position, stdout, exit_status >>
  /\ UNCHANGED << argv, system, environ, cxx, cxx_index, cpp, ld, ld_cmdline, ld_lib,
                  logfile, config_report, config, stderr >>
  /\ UNCHANGED outside_configure

\* lines 210-574: the build type is reported, the candidates are set for
\* the system and replaced by CXX if it is set.  On darwin the script ends
\* here when the two deployment targets of the environment differ.
SetCompiler ==
  /\ position = "options" /\ arg_index = Len(argv)
  /\ \E targets_differ \in BOOLEAN :
       IF targets_differ /\ system = "darwin"
       THEN /\ error("environment variables QMAKE_MACOSX_DEPLOYMENT_TARGET and MACOSX_DEPLOYMENT_TARGET differ")
            /\ cxx' = platform_cxx(system)
            /\ UNCHANGED ld_cmdline
       ELSE /\ ~targets_differ
            /\ cxx' = IF environ.CXX # "" THEN shlex_split(environ.CXX)
                      ELSE platform_cxx(system)
            /\ ld_cmdline' = IF environ.LD # "" THEN shlex_split(environ.LD) ELSE << >>
            /\ position' = "compiler"
            /\ UNCHANGED << stderr, exit_status >>
  /\ logfile' = "open"
  /\ report("Detecting OS: " \o system)
  /\ UNCHANGED << argv, arg_index, option_vars, system, environ, cxx_index, cpp, ld,
                  ld_lib, config, stdout >>
  /\ UNCHANGED outside_configure

\* what lines 577, 588 and 592 report of a candidate
looking(name) == "Looking for compiler [" \o name \o "]: "

\* lines 576-615: one turn of the loop over the candidates
Candidate ==
  /\ position = "compiler" /\ cxx_index < Len(cxx)
  /\ LET compiler == cxx[cxx_index + 1]
     IN  /\ cxx_index' = cxx_index + 1
         /\ cpp' = << compiler >> \o cxx_args
         /\ IF ld_cmdline # << >>
            THEN /\ ld_lib' = ld_cmdline \o ld_lib_args
                 /\ ld' = ld_cmdline \o ld_args
                 /\ ld_cmdline' = ld_cmdline \o ld_args
            ELSE /\ ld_lib' = << compiler >> \o ld_lib_args
                 /\ ld' = << compiler >> \o ld_args
                 /\ UNCHANGED ld_cmdline
         /\ \E outcome \in Outcomes :
              CASE outcome = "not found" ->
                     /\ config_report' = config_report
                          \o << looking(compiler) \o "not found" >>
                     /\ UNCHANGED << position, stderr, exit_status >>
                [] outcome = "test failed" ->
                     /\ config_report' = config_report
                          \o << looking(compiler) \o "version",
                                "Checking for C++11 compliance: test failed (see configure.log for details)" >>
                     /\ UNCHANGED << position, stderr, exit_status >>
                [] outcome = "ok" ->
                     /\ config_report' = config_report
                          \o << looking(compiler) \o "version",
                                "Checking for C++11 compliance: ok" >>
                     /\ position' = "checks"
                     /\ UNCHANGED << stderr, exit_status >>
                [] outcome = "unexpected" ->
                     /\ config_report' = config_report
                          \o << looking(compiler) \o "version",
                                "Checking for C++11 compliance: " >>
                     /\ error("unexpected exception!")
  /\ UNCHANGED << argv, arg_index, option_vars, system, environ, cxx, config, logfile,
                  stdout >>
  /\ UNCHANGED outside_configure

\* lines 616-619: the else clause of the loop over the candidates
NoCompiler ==
  /\ position = "compiler" /\ cxx_index = Len(cxx)
  /\ error("no suitable compiler found!")
  /\ UNCHANGED << argv, arg_index, option_vars, system, environ, cxx, cxx_index, cpp, ld,
                  ld_cmdline, ld_lib, logfile, stdout, config_report, config >>
  /\ UNCHANGED outside_configure

\* lines 625-920: the tests of the compiler and of the libraries, any of
\* which may end the script
Checks ==
  /\ position = "checks"
  /\ \E ok \in BOOLEAN :
       IF ok THEN position' = "shared" /\ UNCHANGED << stderr, exit_status >>
       ELSE error("unexpected exception!")
  /\ UNCHANGED << argv, arg_index, option_vars, system, environ, cxx, cxx_index, cpp, ld,
                  ld_cmdline, ld_lib, logfile, stdout, config_report, config >>
  /\ UNCHANGED outside_configure

\* lines 928-958: the test of shared library generation
SharedLibrary ==
  /\ position = "shared"
  /\ IF ~noshared
     THEN \E result \in {"yes", "compiler not found!", "linker not found!",
                         "unexpected exception!"} :
            IF result = "yes"
            THEN /\ report("Checking shared library generation: yes")
                 /\ position' = "qt"
                 /\ UNCHANGED << stderr, exit_status >>
            ELSE /\ report("Checking shared library generation: ")
                 /\ error(result)
     ELSE position' = "qt" /\ UNCHANGED << config_report, stderr, exit_status >>
  /\ UNCHANGED << argv, arg_index, option_vars, system, environ, cxx, cxx_index, cpp, ld,
                  ld_cmdline, ld_lib, logfile, stdout, config >>
  /\ UNCHANGED outside_configure

\* lines 980-1257: the tests of Qt, unless nogui, and of the R library, if
\* R_module; any of them may end the script
QtAndR ==
  /\ position = "qt"
  /\ \E ok \in BOOLEAN :
       IF ok THEN position' = "write" /\ UNCHANGED << stderr, exit_status >>
       ELSE /\ ~nogui \/ R_module
            /\ error("unexpected exception!")
  /\ UNCHANGED << argv, arg_index, option_vars, system, environ, cxx, cxx_index, cpp, ld,
                  ld_cmdline, ld_lib, logfile, stdout, config_report, config >>
  /\ UNCHANGED outside_configure

\* lines 1290-1342: the config file; ld_lib is written only when shared
\* libraries are enabled
WriteConfig ==
  /\ position = "write"
  /\ config' = [cpp |-> cpp, ld |-> ld, ld_enabled |-> ~noshared,
                ld_lib |-> IF noshared THEN << >> ELSE ld_lib,
                nogui |-> nogui]
  /\ position' = "done"
  /\ exit_status' = 0
  /\ UNCHANGED << argv, arg_index, option_vars, system, environ, cxx, cxx_index, cpp, ld,
                  ld_cmdline, ld_lib, logfile, stdout, config_report, stderr >>
  /\ UNCHANGED outside_configure

NextConfigure ==
  \/ ParseArg \/ SetCompiler \/ Candidate \/ NoCompiler \/ Checks
  \/ SharedLibrary \/ QtAndR \/ WriteConfig

SpecConfigure == InitConfigure /\ [][NextConfigure]_vars

----------------------------------------------------------------------------
(* ScalarFileOptions: the widget that shows the scalar file, the           *)
(* thresholds and the colour map of the selected tractogram.  A step is    *)
(* one call from outside: set_tractogram, a click on the file button, a    *)
(* click on a threshold check box, the reset of the intensity.  A slot     *)
(* that a call of setChecked triggers runs within the step of that call,   *)
(* as Qt delivers stateChanged directly.  The values of the entries, the   *)
(* colour map and the redrawing of the window are left out.                *)

\* the number of tractograms
NumTractograms == 2

\* a pointer to no tractogram
NULL == 0

\* the pointers to a tractogram
Tractograms == 1 .. NumTractograms

\* a pointer that is neither null nor the address of a tractogram: what the
\* member tractogram, which the constructor does not set, may hold
Wild == NumTractograms + 1

\* the scalar files of tractograms, "" for none, and what the dialog
\* returns, "" when it is cancelled
ScalarFiles == {"", "a.tsf"}

\* a Tractogram, as far as the widget reads and writes it
TractogramChoices ==
  [ scalar_filename : ScalarFiles, use_discard_lower : BOOLEAN, use_discard_upper : BOOLEAN ]

\* a widget as Qt constructs it: enabled
new_widget == [ enabled |-> TRUE ]

\* the object after the constructor has run: every widget is enabled, no
\* check box is checked, the member tractogram holds whatever was in memory
Constructed(pointer) ==
  [ tractogram          |-> pointer,
    file_button         |-> [ enabled |-> TRUE, text |-> "" ],
    min_entry           |-> new_widget,
    max_entry           |-> new_widget,
    threshold_lower_box |-> [ enabled |-> TRUE, checked |-> FALSE ],
    threshold_upper_box |-> [ enabled |-> TRUE, checked |-> FALSE ],
    threshold_lower     |-> new_widget,
    threshold_upper     |-> new_widget,
    colourmap_menu      |-> new_widget ]

\* the state the operators below transform: the object, the tractograms and
\* whether an invalid pointer has been dereferenced
ScalarState == [ self |-> self, tractograms |-> tractograms, undefined |-> undefined ]

\* tractogram-> : the dereference of the member
dereference_fails(st) == st.self.tractogram \notin Tractograms

\* shorten (text, 35, 0): a text of at most 35 characters is kept; the file
\* names of the model are shorter
shorten(text) == text

\* threshold_lower_changed
threshold_lower_changed(st) ==
  IF st.self.tractogram = NULL THEN st
  ELSE IF dereference_fails(st) THEN [ st EXCEPT !.undefined = TRUE ]
  ELSE [ st EXCEPT !.self.threshold_lower.enabled = st.self.threshold_lower_box.checked,
                   !.tractograms[st.self.tractogram].use_discard_lower =
                       st.self.threshold_lower_box.checked ]

\* threshold_upper_changed
threshold_upper_changed(st) ==
  IF st.self.tractogram = NULL THEN st
  ELSE IF dereference_fails(st) THEN [ st EXCEPT !.undefined = TRUE ]
  ELSE [ st EXCEPT !.self.threshold_upper.enabled = st.self.threshold_upper_box.checked,
                   !.tractograms[st.self.tractogram].use_discard_upper =
                       st.self.threshold_upper_box.checked ]

\* threshold_lower_box->setChecked: stateChanged is emitted, and its slot
\* runs, when the state changes
setChecked_lower(st, checked) ==
  IF st.self.threshold_lower_box.checked = checked THEN st
  ELSE threshold_lower_changed([ st EXCEPT !.self.threshold_lower_box.checked = checked ])

\* threshold_upper_box->setChecked
setChecked_upper(st, checked) ==
  IF st.self.threshold_upper_box.checked = checked THEN st
  ELSE threshold_upper_changed([ st EXCEPT !.self.threshold_upper_box.checked = checked ])

\* clear_tool_display
clear_tool_display(st) ==
  LET s1 == [ st EXCEPT !.self.file_button = [ enabled |-> FALSE, text |-> "" ],
                        !.self.min_entry.enabled = FALSE,
                        !.self.max_entry.enabled = FALSE ]
      s2 == setChecked_upper(setChecked_lower(s1, FALSE), FALSE)
  IN [ s2 EXCEPT !.self.threshold_lower_box.enabled = FALSE,
                 !.self.threshold_upper_box.enabled = FALSE,
                 !.self.threshold_lower.enabled = FALSE,
                 !.self.threshold_upper.enabled = FALSE,
                 !.self.colourmap_menu.enabled = FALSE ]

\* the branch of update_tool_display for the lower threshold
update_lower(st) ==
  LET s1 == [ st EXCEPT !.self.threshold_lower_box.enabled = TRUE ]
  IN IF s1.tractograms[s1.self.tractogram].use_discard_lower
     THEN [ setChecked_lower(s1, TRUE) EXCEPT !.self.threshold_lower.enabled = TRUE ]
     ELSE setChecked_lower([ s1 EXCEPT !.self.threshold_lower.enabled = FALSE ], FALSE)

\* the branch of update_tool_display for the upper threshold
update_upper(st) ==
  LET s1 == [ st EXCEPT !.self.threshold_upper_box.enabled = TRUE ]
  IN IF s1.tractograms[s1.self.tractogram].use_discard_upper
     THEN [ setChecked_upper(s1, TRUE) EXCEPT !.self.threshold_upper.enabled = TRUE ]
     ELSE setChecked_upper([ s1 EXCEPT !.self.threshold_upper.enabled = FALSE ], FALSE)

\* update_tool_display
update_tool_display(st) ==
  IF st.self.tractogram = NULL THEN clear_tool_display(st)
  ELSE IF dereference_fails(st) THEN [ st EXCEPT !.undefined = TRUE ]
  ELSE IF st.tractograms[st.self.tractogram].scalar_filename # ""
  THEN LET s1 == [ st EXCEPT !.self.file_button.enabled = TRUE,
                             !.self.min_entry.enabled = TRUE,
                             !.self.max_entry.enabled = TRUE ]
           s2 == update_upper(update_lower(s1))
       IN [ s2 EXCEPT !.self.colourmap_menu.enabled = TRUE,
                      !.self.file_button.text =
                          shorten(s2.tractograms[s2.self.tractogram].scalar_filename) ]
  ELSE [ clear_tool_display(st) EXCEPT
           !.self.file_button = [ enabled |-> TRUE, text |-> "Open File" ] ]

\* set_tractogram with the display updated before the member is assigned
set_tractogram_update_first(st, selected_tractogram) ==
  [ update_tool_display(st) EXCEPT !.self.tractogram = selected_tractogram ]

\* set_tractogram
set_tractogram(st, selected_tractogram) ==
  update_tool_display([ st EXCEPT !.self.tractogram = selected_tractogram ])

\* open_track_scalar_file_slot, the dialog having returned scalar_file;
\* loads tells whether load_track_scalars returns or throws
open_track_scalar_file_slot(st, scalar_file, loads) ==
  IF scalar_file = "" THEN st
  ELSE IF dereference_fails(st) THEN [ st EXCEPT !.undefined = TRUE ]
  ELSE IF ~loads THEN st
  ELSE set_tractogram([ st EXCEPT !.tractograms[st.self.tractogram].scalar_filename = scalar_file ],
                      st.self.tractogram)

\* reset_intensity_slot
reset_intensity_slot(st) ==
  IF st.self.tractogram = NULL THEN st
  ELSE IF dereference_fails(st) THEN [ st EXCEPT !.undefined = TRUE ]
  ELSE update_tool_display(st)

\* the variables the widget ScalarFileOptions does not touch
outside_scalar == << dwigradcheck_vars, configure_vars, odf_vars >>

\* the state after the constructor
InitScalarFileOptions ==
  /\ \E pointer \in {NULL, Wild} : self = Constructed(pointer)
  /\ tractograms \in [ Tractograms -> TractogramChoices ]
  /\ undefined = FALSE
  /\ history = [ event |-> "constructor", selected |-> FALSE ]
  /\ DwigradcheckIdle /\ ConfigureIdle /\ OdfIdle

\* the step to the state st, which the slot named event has computed
Becomes(st, event, selects) ==
  /\ self' = st.self
  /\ tractograms' = st.tractograms
  /\ undefined' = st.undefined
  /\ history' = [ event |-> event, selected |-> history.selected \/ selects ]
  /\ UNCHANGED outside_scalar

\* the tool selects a tractogram, or none
SetTractogram ==
  /\ ~undefined
  /\ \E selected_tractogram \in Tractograms \cup {NULL} :
       Becomes(set_tractogram(ScalarState, selected_tractogram), "set_tractogram", TRUE)

\* the user clicks the file button, which an enabled button allows
OpenTrackScalarFileSlot ==
  /\ ~undefined
  /\ self.file_button.enabled
  /\ \E scalar_file \in ScalarFiles, loads \in BOOLEAN :
       Becomes(open_track_scalar_file_slot(ScalarState, scalar_file, loads),
               "open_track_scalar_file_slot", FALSE)

\* the user clicks the check box of the lower threshold
ThresholdLowerChanged ==
  /\ ~undefined
  /\ self.threshold_lower_box.enabled
  /\ Becomes(setChecked_lower(ScalarState, ~self.threshold_lower_box.checked),
             "threshold_lower_changed", FALSE)

\* the user clicks the check box of the upper threshold
ThresholdUpperChanged ==
  /\ ~undefined
  /\ self.threshold_upper_box.enabled
  /\ Becomes(setChecked_upper(ScalarState, ~self.threshold_upper_box.checked),
             "threshold_upper_changed", FALSE)

\* the user resets the intensity
ResetIntensitySlot ==
  /\ ~undefined
  /\ Becomes(reset_intensity_slot(ScalarState), "reset_intensity_slot", FALSE)

NextScalarFileOptions ==
  \/ SetTractogram
  \/ OpenTrackScalarFileSlot
  \/ ThresholdLowerChanged
  \/ ThresholdUpperChanged
  \/ ResetIntensitySlot

SpecScalarFileOptions == InitScalarFileOptions /\ [][NextScalarFileOptions]_vars

----------------------------------------------------------------------------
(* ODF::Model: the list of images of the ODF tool.  image_open_slot asks   *)
(* for images and hands them to add_items, which announces the new rows    *)
(* to the views, loads the images one by one and ends the insertion.  An   *)
(* image is its file name; the selection of the first new row is left out. *)

\* the longest list the dialog returns
MaxList == 2

\* the number of images beyond which no further image is opened
MaxItems == 3

\* the files the dialog offers
ImageNames == {"a.mif", "b.mif"}

\* an entry of the list: a file name, and whether MR::Image::Header can
\* load it or throws
ListEntries == [ name : ImageNames, loads : BOOLEAN ]

\* the lists of at most n entries
ListsUpTo(n) == UNION { [ 1 .. k -> ListEntries ] : k \in 0 .. n }

\* the variables ODF::Model does not touch
outside_odf == << dwigradcheck_vars, configure_vars, scalar_vars >>

\* the model after its construction: no image
InitODF ==
  /\ items = << >> /\ image_list = << >> /\ list_index = 0 /\ announced = << >>
  /\ rows_before = 0 /\ odf_position = "ready"
  /\ DwigradcheckIdle /\ ConfigureIdle /\ ScalarIdle

\* beginInsertRows (parent, first, last), as add_items calls it
beginInsertRows_arguments(size, list_size) == << size, size + list_size >>

\* image_open_slot up to the loop of add_items: the dialog returns a list;
\* an empty list ends the slot, any other is handed to add_items, which
\* calls beginInsertRows
ImageOpenSlot ==
  /\ odf_position \in {"ready", "returned", "inserted"}
  /\ Len(items) < MaxItems
  /\ \E chosen \in ListsUpTo(MaxList) :
       /\ image_list' = chosen
       /\ list_index' = 0
       /\ rows_before' = Len(items)
       /\ IF chosen = << >>
          THEN announced' = << >> /\ odf_position' = "returned"
          ELSE /\ announced' = beginInsertRows_arguments(Len(items), Len(chosen))
               /\ odf_position' = "loop"
  /\ UNCHANGED items
  /\ UNCHANGED outside_odf

\* one iteration of the loop of add_items: the image is loaded and appended,
\* or loading throws and the image is skipped
PushBack ==
  /\ odf_position = "loop"
  /\ list_index < Len(image_list)
  /\ items' = IF image_list[list_index + 1].loads
              THEN Append(items, image_list[list_index + 1].name)
              ELSE items
  /\ list_index' = list_index + 1
  /\ UNCHANGED << image_list, announced, rows_before, odf_position >>
  /\ UNCHANGED outside_odf

\* the end of the loop: endInsertRows, and the return to image_open_slot
EndInsertRows ==
  /\ odf_position = "loop"
  /\ list_index = Len(image_list)
  /\ odf_position' = "inserted"
  /\ UNCHANGED << items, image_list, list_index, announced, rows_before >>
  /\ UNCHANGED outside_odf

NextODF == ImageOpenSlot \/ PushBack \/ EndInsertRows

SpecODF == InitODF /\ [][NextODF]_vars

----------------------------------------------------------------------------
(* Properties *)

\* the ranking step has completed
Ranked ==
  pc \in {"report", "export", "complete"} \/ (pc = "error" /\ counts.mrinfo > 0)

\* the place of a permutation of (0,1,2) among the six, in the listed order
PermIndex(q) == 2 * q[1] + (IF q[2] > q[3] THEN 1 ELSE 0)

\* the place of a result in the order of generation (flip outer, permutation
\* middle, basis inner), counted from 0
GenIndex(result) ==
  LET f == IF result[2] = none THEN 0 ELSE result[2] + 1
      b == IF result[4] = "scanner" THEN 0 ELSE 1
  IN  (f * 6 + PermIndex(result[3])) * 2 + b

\* The place of a result among results of the same mean length: flip 'none'
\* above the flips 2, 1, 0, then the permutations in their listed order, then
\* scanner above image.
TieKey(result) ==
  LET f == IF result[2] = none THEN 3 ELSE result[2]
      b == IF result[4] = "scanner" THEN 1 ELSE 0
  IN  (f * 6 + PermIndex(result[3])) * 2 + b

\* C1 as stated: after the ranking step the results are in descending order
\* of mean length, and of two results with the same mean length the one
\* generated earlier comes first.
C1_TiesKeepGenerationOrder ==
  Ranked =>
    \A i, j \in 1..Len(lengths) :
      i < j => \/ lengths[i][1] > lengths[j][1]
               \/ /\ lengths[i][1] = lengths[j][1]
                  /\ GenIndex(lengths[i]) < GenIndex(lengths[j])

\* C1 amended: after the ranking step the results are in descending order of
\* mean length, and results of the same mean length are in descending order
\* of (flip, permutation, basis) as Python compares them: 'none' before 2, 1,
\* 0, then the later permutation first, then scanner before image.  When
\* Python 3 ends the ranking step with a TypeError, two results of the same
\* mean length have a flip 'none' and a numeric flip.
C1_TiesInReverseListOrder ==
  /\ Ranked =>
       /\ Len(lengths) = NumCandidates
       /\ \A i, j \in 1..Len(lengths) :
            i < j => \/ lengths[i][1] > lengths[j][1]
                     \/ /\ lengths[i][1] = lengths[j][1]
                        /\ TieKey(lengths[i]) > TieKey(lengths[j])
  /\ pc = "TypeError" =>
       \E i, j \in 1..Len(lengths) :
         /\ lengths[i][1] = lengths[j][1]
         /\ ~IsNumber(lengths[i][2]) /\ IsNumber(lengths[j][2])

\* C1 witness: a ranked list with two results of the same mean length, of
\* which the first was generated later, and two of different mean lengths
C1_Witness ==
  /\ Ranked
  /\ \E i \in 1..(Len(lengths) - 1) :
       /\ lengths[i][1] = lengths[i + 1][1]
       /\ GenIndex(lengths[i]) > GenIndex(lengths[i + 1])
  /\ \E i \in 1..(Len(lengths) - 1) : lengths[i][1] > lengths[i + 1][1]

\* the loop has ended
LoopDone ==
  \/ pc \in {"sort", "TypeError", "report", "export", "complete"}
  \/ pc = "error" /\ counts.mrinfo > 0

\* {none,0,1,2} x the permutations of (0,1,2) x {scanner, image}
AllTriples ==
  { << f, q, b >> : f \in {none, 0, 1, 2},
                    q \in { << x, y, z >> : x, y, z \in 0..2 } ,
                    b \in {"scanner", "image"} }

ProductOfTriples ==
  { t \in AllTriples : Cardinality({t[2][1], t[2][2], t[2][3]}) = 3 }

Triple(result) == << result[2], result[3], result[4] >>

\* C2: the loop evaluates exactly 48 candidates, no triple twice, and the
\* triples evaluated are the whole product of flips, permutations and bases.
C2_EveryTripleOnce ==
  /\ \A i, j \in 1..Len(lengths) : i # j => Triple(lengths[i]) # Triple(lengths[j])
  /\ counts.tckgen \in {Len(lengths), Len(lengths) + 1}
  /\ counts.tckstats \in {Len(lengths), Len(lengths) + 1}
  /\ counts.tckstats <= counts.tckgen
  /\ LoopDone =>
       /\ Len(lengths) = 48
       /\ counts.tckgen = 48
       /\ counts.tckstats = 48
       /\ {Triple(lengths[i]) : i \in 1..Len(lengths)} = ProductOfTriples

\* C2 witness: the loop has just ended with 48 results
C2_Witness == pc = "sort" /\ Len(lengths) = 48 /\ counts.tckgen = 48

\* the combined table with component f negated and the three direction
\* components reordered as q
FlippedThenPermutedColumns(table, f, q) ==
  [r \in 1..Len(table) |->
     [c \in 1..4 |->
        IF c = 4 THEN table[r][4]
        ELSE IF q[c] = f THEN FNeg(table[r][q[c] + 1]) ELSE table[r][q[c] + 1]]]

PermDigits(q) == ToString(q[1]) \o ToString(q[2]) \o ToString(q[3])

FlipName(f) == IF f = none THEN "none" ELSE ToString(f)

ScannerFile(f, q) == "grad_flip" \o FlipName(f) \o "_perm" \o PermDigits(q) \o "_scanner.b"

ImageFile(f, q) == "bvecs_flip" \o FlipName(f) \o "_perm" \o PermDigits(q) \o "_image"

TracksFile(f, q, b) ==
  "tracks_flip" \o FlipName(f) \o "_perm" \o PermDigits(q) \o "_" \o b \o ".tck"

\* C3: the table written for a scanner-basis candidate with a numeric flip f
\* and permutation q has, in every row, the original row with component f
\* negated and then the direction components reordered as q, and the
\* original b-value; the file holds these values and keeps them.
C3_ScannerTable ==
  /\ (pc = "tckgen" /\ basis = "scanner" /\ IsNumber(flip)) =>
       grad = FlippedThenPermutedColumns(loaded.grad_mrtrix, flip, permutation)
  /\ \A i \in 1..Len(lengths) :
       (lengths[i][4] = "scanner" /\ IsNumber(lengths[i][2])) =>
         /\ ScannerFile(lengths[i][2], lengths[i][3]) \in DOMAIN files
         /\ files[ScannerFile(lengths[i][2], lengths[i][3])]
              = grad_lines(",", FlippedThenPermutedColumns(loaded.grad_mrtrix,
                                     lengths[i][2], lengths[i][3]))
  /\ (pc \in {"tckgen", "tckstats"} /\ basis = "scanner" /\ IsNumber(flip)) =>
       /\ ScannerFile(flip, permutation) \in DOMAIN files
       /\ files[ScannerFile(flip, permutation)]
            = grad_lines(",", FlippedThenPermutedColumns(loaded.grad_mrtrix,
                                   flip, permutation))

\* C3 witness: the table of (flip 1, permutation (1,2,0), scanner) has just
\* been written, and a row has a component 1 that is not zero, now negated in
\* the first place
C3_Witness ==
  /\ pc = "tckgen" /\ basis = "scanner" /\ flip = 1 /\ permutation = << 1, 2, 0 >>
  /\ \E r \in 1..Len(grad) :
       /\ loaded.grad_mrtrix[r][2].mag # 0
       /\ grad[r][1] = FNeg(loaded.grad_mrtrix[r][2])
       /\ grad[r][4] = loaded.grad_mrtrix[r][4]

\* the split table with row f negated and the three rows reordered as q
FlippedThenPermutedRows(table, f, q) ==
  [a \in 1..3 |->
     IF q[a] = f THEN [c \in 1..Len(table[q[a] + 1]) |-> FNeg(table[q[a] + 1][c])]
     ELSE table[q[a] + 1]]

\* C4: the table written for an image-basis candidate with a numeric flip f
\* and permutation q has as its rows the original rows q0, q1, q2, row f
\* negated before the reordering; the file bvals is never rewritten and
\* every image-basis candidate passes it to tckgen.
C4_ImageTable ==
  /\ (pc = "tckgen" /\ basis = "image" /\ IsNumber(flip)) =>
       grad = FlippedThenPermutedRows(loaded.grad_fsl, flip, permutation)
  /\ \A i \in 1..Len(lengths) :
       (lengths[i][4] = "image" /\ IsNumber(lengths[i][2])) =>
         /\ ImageFile(lengths[i][2], lengths[i][3]) \in DOMAIN files
         /\ files[ImageFile(lengths[i][2], lengths[i][3])]
              = grad_lines(" ", FlippedThenPermutedRows(loaded.grad_fsl,
                                     lengths[i][2], lengths[i][3]))
  /\ (pc \in {"tckgen", "tckstats"} /\ basis = "image" /\ IsNumber(flip)) =>
       files[ImageFile(flip, permutation)]
         = grad_lines(" ", FlippedThenPermutedRows(loaded.grad_fsl, flip, permutation))
  /\ "bvals" \in DOMAIN files /\ files["bvals"] = loaded.files["bvals"]
  /\ (pc \in {"tckgen", "tckstats"} /\ basis = "image") =>
       grad_option = " -fslgrad " \o ImageFile(flip, permutation) \o " bvals"
  /\ (pc = "tckstats" /\ basis = "image") =>
       last_cmd = "tckgen -algorithm tensor_det data.mif -fslgrad "
                    \o ImageFile(flip, permutation)
                    \o " bvals -seed_image mask.mif -mask mask.mif -select "
                    \o ToString(args.number) \o " -minlength 0 -downsample 5 "
                    \o TracksFile(flip, permutation, "image")

\* C4 witness: the table of (flip 2, permutation (2,0,1), image) has just been
\* written, row 2 of the original has a value that is not zero, and the
\* first row written is its negation
C4_Witness ==
  /\ pc = "tckgen" /\ basis = "image" /\ flip = 2 /\ permutation = << 2, 0, 1 >>
  /\ \E c \in 1..num_volumes : loaded.grad_fsl[3][c].mag # 0
  /\ grad[1] = [c \in 1..num_volumes |-> FNeg(loaded.grad_fsl[3][c])]
  /\ grad[2] = loaded.grad_fsl[1]

ExportRequested == args.export_grad_mrtrix # "" \/ args.export_grad_fsl # << >>

\* the table written for a candidate
CandidateTable(f, q, b) ==
  IF b = "scanner" THEN FlippedThenPermutedColumns(loaded.grad_mrtrix, f, q)
  ELSE FlippedThenPermutedRows(loaded.grad_fsl, f, q)

CandidateFile(f, q, b) == IF b = "scanner" THEN ScannerFile(f, q) ELSE ImageFile(f, q)

CandidateLines(f, q, b) ==
  grad_lines(IF b = "scanner" THEN "," ELSE " ", CandidateTable(f, q, b))

\* C5: when an export is requested, mrinfo is run exactly once, after the
\* ranking, on the gradient file written in the loop for the first result of
\* the ranked list, whose mean length is not less than any other, with -grad
\* for a scanner-basis result and -fslgrad ... bvals for an image-basis one;
\* when no export is requested, mrinfo is never run.
C5_ExportOfBest ==
  /\ counts.mrinfo <= 1
  /\ ~ExportRequested => counts.mrinfo = 0
  /\ pc = "complete" => counts.mrinfo = (IF ExportRequested THEN 1 ELSE 0)
  /\ counts.mrinfo = 1 =>
       LET best == lengths[1]
           file == CandidateFile(best[2], best[3], best[4])
       IN  /\ Ranked /\ pc \in {"complete", "error"}
           /\ Len(printed) = 49
           /\ \A i \in 1..Len(lengths) : best[1] >= lengths[i][1]
           /\ file \in DOMAIN files
           /\ files[file] = CandidateLines(best[2], best[3], best[4])
           /\ last_cmd =
                "mrinfo data.mif"
                  \o (IF best[4] = "scanner" THEN " -grad " \o file
                      ELSE " -fslgrad " \o file \o " bvals")
                  \o (IF args.export_grad_mrtrix # ""
                      THEN " -export_grad_mrtrix /cwd/" \o args.export_grad_mrtrix
                      ELSE " -export_grad_fsl /cwd/" \o args.export_grad_fsl[1]
                             \o " /cwd/" \o args.export_grad_fsl[2])

\* C5 witness: a run has completed with the export of a scanner-basis best
\* result that has the same mean length as another result
C5_Witness ==
  /\ pc = "complete" /\ counts.mrinfo = 1
  /\ lengths[1][4] = "scanner" /\ lengths[1][1] = lengths[2][1]

SourceFiles == {"grad.b", "bvecs", "bvals", "data.mif", "mask.mif"}

GradFiles == { CandidateFile(t[1], t[2], t[3]) : t \in ProductOfTriples }

TrackFiles == { TracksFile(t[1], t[2], t[3]) : t \in ProductOfTriples }

AllNames == GradFiles \cup TrackFiles \cup SourceFiles

\* how many different names the candidates and the source files have
NumNames == Cardinality(AllNames)

\* C6: once the tckgen or the tckstats command of a candidate has failed, the
\* script has ended with an error at that command: the command has been run
\* once for that candidate, no later candidate has been started, nothing has
\* been printed and mrinfo has not been run; and no step is taken after a
\* failure.
C6_FailureAborts ==
  /\ [](failed \in {tckgen_cmd, tckstats_cmd} =>
          /\ pc = "error"
          /\ last_cmd = failed
          /\ counts.tckgen = Len(lengths) + 1
          /\ counts.tckstats = Len(lengths) + (IF failed = tckstats_cmd THEN 1 ELSE 0)
          /\ Cardinality(DOMAIN files \cap GradFiles) = Len(lengths) + 1
          /\ printed = << >>
          /\ counts.mrinfo = 0)
  /\ [][failed = ""]_vars

\* C6 witness: tckstats has failed for a candidate after the first ones
C6_Witness ==
  /\ failed # "" /\ counts.tckstats = counts.tckgen /\ counts.mrinfo = 0
  /\ Len(lengths) = 5

C9_IdentityCandidate ==
  (pc \in {"tckgen", "tckstats"} /\ flip = none /\ permutation = << 0, 1, 2 >>) =>
    grad = (IF basis = "scanner" THEN loaded.grad_mrtrix ELSE loaded.grad_fsl)

\* C9 witness: the table of (no flip, (0,1,2), scanner) has just been written
\* from a table with a direction and a b-value that are not zero
C9_Witness ==
  /\ pc = "tckgen" /\ flip = none /\ permutation = << 0, 1, 2 >> /\ basis = "scanner"
  /\ \E r \in 1..Len(grad) : grad[r][4].mag # 0 /\ grad[r][2].mag # 0

\* the first command of the loop that failed was tckgen
TckgenFailed == pc = "error" /\ counts.mrinfo = 0 /\ counts.tckgen > counts.tckstats

\* C10: the names of the gradient files and of the tractograms of the 48
\* candidates are all different, and different from the five source files:
\* every file written stays as it was written, the source files stay as they
\* were, and after the loop 48 gradient files and 48 tractograms are there.
C10_NoFileOverwritten ==
  /\ NumNames = 48 + 48 + 5
  /\ \A name \in SourceFiles : name \in DOMAIN files /\ files[name] = loaded.files[name]
  /\ \A i \in 1..Len(lengths) :
       LET f == lengths[i][2]
           q == lengths[i][3]
           b == lengths[i][4]
       IN  /\ CandidateFile(f, q, b) \in DOMAIN files
           /\ files[CandidateFile(f, q, b)] = CandidateLines(f, q, b)
           /\ TracksFile(f, q, b) \in DOMAIN files
           /\ files[TracksFile(f, q, b)]
                = << "tracks of"
                       \o (IF b = "scanner" THEN " -grad " \o ScannerFile(f, q)
                           ELSE " -fslgrad " \o ImageFile(f, q) \o " bvals") >>
  /\ Cardinality(DOMAIN files \cap GradFiles)
       = counts.tckgen + (IF pc = "tckgen" THEN 1 ELSE 0)
  /\ Cardinality(DOMAIN files \cap TrackFiles)
       = counts.tckgen - (IF TckgenFailed THEN 1 ELSE 0)
  /\ DOMAIN files \subseteq AllNames
  /\ LoopDone =>
       /\ Cardinality(DOMAIN files \cap GradFiles) = 48
       /\ Cardinality(DOMAIN files \cap TrackFiles) = 48

\* C10 witness: the loop has ended and the scratch directory holds 101 files
C10_Witness == pc = "sort" /\ Cardinality(DOMAIN files) = 101

\* the text of a row of the report: the mean length with two decimals in
\* five characters, the flip in four, the permutation as Python prints a
\* tuple, the basis
RowText(result) ==
  LET length == (IF result[1] < 10 THEN " " ELSE "") \o ToString(result[1]) \o ".00"
      axis == IF result[2] = none THEN "none" ELSE "   " \o ToString(result[2])
      perm == "(" \o ToString(result[3][1]) \o ", " \o ToString(result[3][2])
                \o ", " \o ToString(result[3][3]) \o ")"
  IN  length \o "         " \o axis \o "                " \o perm
        \o "           " \o result[4]

\* C15: whatever is printed is printed after the 48 candidates have been
\* evaluated and the results sorted: the heading, then 48 rows, row i showing
\* the mean length, flip, permutation and basis of entry i of the sorted
\* results list, one row for every candidate; a run that completes has
\* printed the report.
C15_ReportAfterLoop ==
  /\ printed # << >> =>
       /\ Ranked
       /\ counts.tckgen = 48 /\ counts.tckstats = 48 /\ Len(lengths) = 48
       /\ Len(printed) = 1 + 48
       /\ \A i \in 1..48 : printed[i + 1] = RowText(lengths[i])
       /\ \A i \in 1..47 : lengths[i][1] >= lengths[i + 1][1]
       /\ {Triple(lengths[i]) : i \in 1..48} = ProductOfTriples
  /\ pc \in {"export", "complete"} => printed # << >>

\* C15 witness: a run has completed; the report's first row is of a candidate
\* with a flip and its last row of a candidate generated before that one
C15_Witness ==
  /\ pc = "complete" /\ Len(printed) = 49
  /\ lengths[1][2] # none
  /\ GenIndex(lengths[48]) < GenIndex(lengths[1])

\* the order of generation, spelled out
GenerationOrder ==
  LET flips == << none, 0, 1, 2 >>
      perms == << << 0, 1, 2 >>, << 0, 2, 1 >>, << 1, 0, 2 >>,
                  << 1, 2, 0 >>, << 2, 0, 1 >>, << 2, 1, 0 >> >>
      bases == << "scanner", "image" >>
  IN  [k \in 1..48 |->
         << flips[((k - 1) \div 12) + 1], perms[(((k - 1) \div 2) % 6) + 1],
            bases[((k - 1) % 2) + 1] >>]

\* the results list has not been sorted
NotSorted == pc \in {"write", "tckgen", "tckstats", "sort", "TypeError"} \/
             (pc = "error" /\ counts.mrinfo = 0)

\* C18: before the sort, entry k of the results list is triple k of the
\* order flip (outer), permutation (middle), basis (inner), and the candidate
\* being evaluated is the next triple of that order.
C18_GenerationOrder ==
  NotSorted =>
    /\ Len(lengths) <= 48
    /\ \A k \in 1..Len(lengths) : Triple(lengths[k]) = GenerationOrder[k]
    /\ Len(lengths) < 48 =>
         << flip, permutation, basis >> = GenerationOrder[Len(lengths) + 1]

\* C18 witness: the loop has gone through all bases and permutations of the
\* first flip and some of the second
C18_Witness ==
  /\ pc = "write" /\ Len(lengths) = 15
  /\ lengths[12][2] = none /\ lengths[13][2] = 0 /\ lengths[15][3] = << 0, 2, 1 >>

\* how many gradient files of candidates the scratch directory holds
NumGradFiles == Cardinality(DOMAIN files \cap GradFiles)

\* C19: the steps of a candidate are taken once each and in the order write,
\* tckgen, tckstats, append, and the first step of the next candidate comes
\* after the append: at every point of the loop the files written, the tckgen
\* runs and the tckstats runs are as many as the results, plus one for the
\* steps the current candidate has taken; and every step of the script
\* takes one step of one candidate.
C19_OneCandidateAtATime ==
  /\ [](failed = "" =>
          /\ pc = "write" =>
               /\ NumGradFiles = Len(lengths)
               /\ counts.tckgen = Len(lengths) /\ counts.tckstats = Len(lengths)
          /\ pc = "tckgen" =>
               /\ NumGradFiles = Len(lengths) + 1
               /\ CandidateFile(flip, permutation, basis) \in DOMAIN files
               /\ counts.tckgen = Len(lengths) /\ counts.tckstats = Len(lengths)
          /\ pc = "tckstats" =>
               /\ NumGradFiles = Len(lengths) + 1
               /\ TracksFile(flip, permutation, basis) \in DOMAIN files
               /\ counts.tckgen = Len(lengths) + 1 /\ counts.tckstats = Len(lengths)
          /\ LoopDone =>
               /\ NumGradFiles = 48 /\ Len(lengths) = 48
               /\ counts.tckgen = 48 /\ counts.tckstats = 48)
  /\ [][/\ pc = "write" =>
             /\ pc' = "tckgen" /\ NumGradFiles' = NumGradFiles + 1
             /\ UNCHANGED << counts, lengths >>
        /\ pc = "tckgen" =>
             /\ pc' \in {"tckstats", "error"} /\ counts'.tckgen = counts.tckgen + 1
             /\ counts'.tckstats = counts.tckstats
             /\ NumGradFiles' = NumGradFiles /\ UNCHANGED lengths
        /\ pc = "tckstats" =>
             /\ pc' \in {"write", "sort", "error"}
             /\ counts'.tckstats = counts.tckstats + 1
             /\ counts'.tckgen = counts.tckgen /\ NumGradFiles' = NumGradFiles
             /\ pc' # "error" =>
                  /\ Len(lengths') = Len(lengths) + 1
                  /\ SubSeq(lengths', 1, Len(lengths)) = lengths
                  /\ Triple(lengths'[Len(lengths')]) = << flip, permutation, basis >>
             /\ pc' = "error" => UNCHANGED lengths]_vars

\* C19 witness: the tracks of the third candidate are there, its result is
\* not yet
C19_Witness ==
  /\ pc = "tckstats" /\ Len(lengths) = 2 /\ counts.tckgen = 3 /\ counts.tckstats = 2
  /\ << flip, permutation, basis >> = << none, << 0, 2, 1 >>, "scanner" >>

BothExports == args.export_grad_mrtrix # "" /\ args.export_grad_fsl # << >>

BothImports == args.grad # "" /\ args.fslgrad # << >>

\* C11: when both export options or both import options are given, the
\* script ends with an error at app.parse(): no command has been run and the
\* scratch directory has not been made.
C11_ExclusiveOptions ==
  (BothExports \/ BothImports) =>
    /\ pc \in {"parse", "error"}
    /\ commands = << >>
    /\ ~tempdir /\ files = << >>
    /\ image_dimensions = << >>

\* C11 witness: a run with both export options and one import option has
\* ended with an error
C11_Witness ==
  /\ pc = "error" /\ BothExports /\ ~BothImports /\ args.grad # ""
  /\ Len(user.size) = 4 /\ ~size_rejected(user.size)

UnitySpatialDimension ==
  Len(user.size) = 4 /\ \E i \in 1..3 : user.size[i] = 1

\* C12: when a spatial dimension of the image is 1, the script ends with an
\* error at the latest when it has read the size: the scratch directory is
\* not made, no file is written and nothing is converted.
C12_UnityDimension ==
  UnitySpatialDimension =>
    /\ pc \in {"parse", "size", "error"}
    /\ ~tempdir /\ files = << >>
    /\ \A i \in 1..Len(commands) : commands[i] = "mrinfo dwi.mif -size"
    /\ (pc = "error" /\ ~mutually_exclusive(args)) =>
         /\ image_dimensions = user.size
         /\ failed = "Cannot perform tractography on an image with a unity spatial dimension"

\* C12 witness: the run on an image of 1 x 2 x 2 voxels and 3 volumes has ended
\* with an error after its size was read
C12_Witness ==
  /\ pc = "error" /\ image_dimensions = << 1, 2, 2, 3 >> /\ commands # << >>

\* the script has got past the checks of the size
PastValidation == pc = "tempdir" \/ tempdir

\* C13: the script gets past the checks of the size only if the image has
\* four dimensions, every spatial dimension is more than 1 and there are at
\* least 2 volumes; a run with any other size has ended with an error when
\* the size has been checked.
C13_OnlyValidSizesPass ==
  /\ PastValidation =>
       /\ Len(user.size) = 4
       /\ \A i \in 1..3 : user.size[i] > 1
       /\ user.size[4] >= 2
  /\ (image_dimensions # << >>
        /\ ~(/\ Len(user.size) = 4
             /\ \A i \in 1..3 : user.size[i] > 1
             /\ user.size[4] >= 2))
     => pc = "error"

\* What lines 37-40 do: the script gets past them exactly when the image has
\* four dimensions the smallest of which is not 1.
SmallestIsUnity == min(user.size) = 1

OnlySmallestUnityRejected ==
  /\ PastValidation => Len(user.size) = 4 /\ ~SmallestIsUnity
  /\ (image_dimensions # << >> /\ ~(Len(user.size) = 4 /\ ~SmallestIsUnity))
     => pc = "error" /\ ~tempdir

\* C13 witness: a run on an image with a spatial dimension of 0 has made the scratch
\* directory
C13_Witness ==
  /\ tempdir /\ user.size[1] = 0 /\ user.size[4] >= 2
  /\ "data.mif" \in DOMAIN files

\* `command` is among the commands run
Ran(command) == \E i \in 1..Len(commands) : commands[i] = command

\* the script has got past the checks of the tables
PastTableChecks == pc \in {"dwi2mask", "write"} \/ (pc = "error" /\ loaded.files # << >>
                                                       /\ failed = "dwi2mask data.mif mask.mif")

Normalized == pc \in {"load", "dwi2mask", "write"} \/ (pc = "error" /\ loaded.files # << >>)

\* what C20 says of the files and of the runs with -fslgrad and with -grad
C20_Supplied ==
  /\ {"grad.b", "bvecs", "bvals"} \subseteq DOMAIN files
  /\ args.fslgrad # << >> =>
       /\ files["bvecs"] = user.bvecs /\ files["bvals"] = user.bvals
       /\ Ran("mrinfo data.mif -fslgrad bvecs bvals -export_grad_mrtrix grad.b")
       /\ files["grad.b"]
            = grad_lines(" ", mrtrix_table(Len(load(user.bvecs, SplitTables)[1]), 7))
       /\ ~Ran("mrinfo data.mif -export_grad_mrtrix grad.b")
       /\ ~Ran("mrinfo data.mif -grad grad.b -export_grad_fsl bvecs bvals")
  /\ args.grad # "" =>
       /\ files["grad.b"] = user.grad
       /\ Ran("mrinfo data.mif -grad grad.b -export_grad_fsl bvecs bvals")
       /\ files["bvecs"]
            = grad_lines(" ", fsl_table(Len(load(user.grad, CombinedTables)), 7))
       /\ ~Ran("mrinfo data.mif -export_grad_mrtrix grad.b")
       /\ ~Ran("mrinfo data.mif -fslgrad bvecs bvals -export_grad_mrtrix grad.b")

\* C20: after the normalization both representations exist; with -fslgrad
\* grad.b is made from the bvecs and bvals given, with -grad bvecs and bvals
\* are made from the grad.b given, and only with neither is a table taken
\* from the image header: grad.b holds the table of the header, and bvecs and
\* bvals hold its split form.
C20_BothRepresentations ==
  Normalized =>
    /\ C20_Supplied
    /\ (args.grad = "" /\ args.fslgrad = << >>) =>
         /\ Ran("mrinfo data.mif -export_grad_mrtrix grad.b")
         /\ files["grad.b"] = grad_lines(" ", user.header)
         /\ files["bvecs"] = grad_lines(" ", to_fsl(grad_lines(" ", user.header)))
         /\ files["bvals"] = grad_lines(" ", fsl_bvals(Len(user.header), 7))

\* With neither option bvecs and bvals are made from the grad.b that line 65
\* took from the header; line 71 is never reached.
SplitAlwaysFromCombined ==
  /\ ~Ran("mrinfo data.mif -export_grad_fsl bvecs bvals")
  /\ (Normalized /\ args.fslgrad = << >>)
       => Ran("mrinfo data.mif -grad grad.b -export_grad_fsl bvecs bvals")

\* C20 witness: a run with neither -grad nor -fslgrad has made both files
C20_Witness ==
  /\ pc = "load" /\ args.grad = "" /\ args.fslgrad = << >>
  /\ Len(commands) = 4 /\ Len(user.header) = 2


\* the option loop has gone through an argument that takes the branch `name`
Given(name) == \E i \in 1..arg_index : option(argv[i]) = name

\* the test of shared library generation has been run
SharedLibraryProbed ==
  \E i \in 1..Len(config_report) :
    config_report[i] \in {"Checking shared library generation: yes",
                          "Checking shared library generation: "}

\* the config file has been written
ConfigWritten == position = "done"

\* C16: once -R has been read, noshared is true; the test of shared library
\* generation is not run, and the config file, when it is written, has
\* ld_enabled = False.
C16_RImpliesNoshared ==
  Given("R") =>
    /\ noshared
    /\ ~SharedLibraryProbed
    /\ ConfigWritten => ~config.ld_enabled

\* What -noshared does, and -static with it: noshared is true, the test of
\* shared library generation is not run and the config file has
\* ld_enabled = False.  Without either of them the config file has
\* ld_enabled = True, whether or not -R is given.
NosharedDisablesSharedLibrary ==
  /\ (Given("noshared") \/ Given("static")) =>
       /\ noshared
       /\ ~SharedLibraryProbed
       /\ ConfigWritten => ~config.ld_enabled /\ config.ld_lib = << >>
  /\ (ConfigWritten /\ ~Given("noshared") /\ ~Given("static")) =>
       /\ ~noshared /\ SharedLibraryProbed
       /\ config.ld_enabled /\ config.ld_lib # << >>

\* the version probe of the candidate `name` has failed
NotFound(name) ==
  \E i \in 1..Len(config_report) : config_report[i] = looking(name) \o "not found"

\* the candidate `name` has failed the C++11 test
TestFailed(name) ==
  \E i \in 1..(Len(config_report) - 1) :
    /\ config_report[i] = looking(name) \o "version"
    /\ config_report[i + 1]
         = "Checking for C++11 compliance: test failed (see configure.log for details)"

\* the candidate `name` has passed the version probe and the C++11 test
Passed(name) ==
  \E i \in 1..(Len(config_report) - 1) :
    /\ config_report[i] = looking(name) \o "version"
    /\ config_report[i + 1] = "Checking for C++11 compliance: ok"

\* the detection loop has been left, CXX not being set
DetectionOver ==
  /\ environ.CXX = "" /\ cxx_index > 0
  /\ position # "compiler"

\* the candidate the script goes on with
Selected(name) == DetectionOver /\ position # "exit" /\ cpp[1] = name

\* C17: without CXX the candidates are clang++ then g++; g++ is selected
\* only if clang++ was not found or failed the C++11 test; the config file
\* names the first candidate that passed both probes; when every candidate
\* was not found or failed the test, the script has ended with 'no suitable
\* compiler found' and no config file.
C17_ClangThenGcc ==
  /\ (environ.CXX = "" /\ position \notin {"options", "exit"})
       => cxx = << "clang++", "g++" >>
  /\ Selected("g++") => NotFound("clang++") \/ TestFailed("clang++")
  /\ (ConfigWritten /\ environ.CXX = "") =>
       /\ Passed(config.cpp[1])
       /\ \A i \in 1..Len(cxx) :
            Passed(cxx[i]) => /\ cxx[i] = config.cpp[1]
                              /\ \A j \in 1..(i - 1) : ~Passed(cxx[j])
  /\ (DetectionOver /\ \A i \in 1..Len(cxx) : NotFound(cxx[i]) \/ TestFailed(cxx[i])) =>
       /\ position = "exit"
       /\ stderr = "no suitable compiler found!"
       /\ config = << >>

\* What lines 241, 519-520 and 576-619 do.  Without CXX the candidates are
\* clang++ then g++, and on Windows g++ then clang++; the second candidate is
\* selected only if the first was not found or failed the C++11 test; the
\* config file names the first candidate that passed both probes; when the
\* detection is over and no candidate has passed, the script has ended
\* without a config file, with 'no suitable compiler found' if every
\* candidate was not found or failed the test, and with 'unexpected
\* exception' if the test of a candidate raised another exception.
OrderOfThePlatform ==
  /\ (environ.CXX = "" /\ position \notin {"options", "exit"})
       => cxx = IF system = "windows" THEN << "g++", "clang++" >>
                ELSE << "clang++", "g++" >>
  /\ (environ.CXX = "" /\ cxx_index > 0) =>
       /\ Len(cxx) = 2
       /\ Selected(cxx[2]) => NotFound(cxx[1]) \/ TestFailed(cxx[1])
  /\ (ConfigWritten /\ environ.CXX = "") =>
       /\ Passed(config.cpp[1])
       /\ \A i \in 1..Len(cxx) :
            Passed(cxx[i]) => /\ cxx[i] = config.cpp[1]
                              /\ \A j \in 1..(i - 1) : ~Passed(cxx[j])
  /\ (DetectionOver /\ \A i \in 1..Len(cxx) : ~Passed(cxx[i])) =>
       /\ position = "exit"
       /\ config = << >>
       /\ stderr = IF \A i \in 1..Len(cxx) : NotFound(cxx[i]) \/ TestFailed(cxx[i])
                   THEN "no suitable compiler found!"
                   ELSE "unexpected exception!"

\* C17 witness: on Windows, without CXX, the script goes on with g++ and has
\* not looked for clang++
C17_Witness ==
  /\ ConfigWritten /\ environ.CXX = "" /\ system = "windows"
  /\ Passed("g++") /\ config.cpp = << "g++" >> \o cxx_args
  /\ ~NotFound("clang++") /\ ~TestFailed("clang++")

\* C16 witness: a run with -R alone has written a config file with
\* ld_enabled = True, after the test of shared library generation
C16_Witness ==
  /\ ConfigWritten /\ argv = << << "-", "R" >> >>
  /\ R_module /\ nogui /\ ~noshared /\ SharedLibraryProbed /\ config.ld_enabled


\* how many times `command` has been run
TimesRan(command) == Cardinality({ i \in 1..Len(commands) : commands[i] = command })

\* C21: with -mask the mask given is converted and dwi2mask is never run;
\* without -mask no mask is converted, dwi2mask has not been run before the
\* script gets to it, and has been run exactly once when the loop begins,
\* before any candidate has been written or tracked.
C21_MaskDerivedIffNotSupplied ==
  /\ args.mask # "" =>
       /\ ~Ran("dwi2mask data.mif mask.mif")
       /\ pc \in {"grad.b", "bvecs", "load", "dwi2mask", "write"}
            => TimesRan(mask_cmd(args)) = 1 /\ "mask.mif" \in DOMAIN files
  /\ args.mask = "" =>
       /\ ~Ran(mask_cmd(args))
       /\ TimesRan("dwi2mask data.mif mask.mif")
            = IF pc = "write" \/ (pc = "error" /\ failed = "dwi2mask data.mif mask.mif")
              THEN 1 ELSE 0
       /\ pc = "write" => "mask.mif" \in DOMAIN files
  /\ Ran("dwi2mask data.mif mask.mif") =>
       /\ lengths = << >> /\ counts.tckgen = 0
       /\ DOMAIN files \subseteq SourceFiles

\* C21 witness: a run with -mask has got to the loop
C21_Witness ==
  /\ pc = "write" /\ args.mask = "brain.mif"
  /\ Ran(mask_cmd(args)) /\ ~Ran("dwi2mask data.mif mask.mif")


\* the decimal text of the values of -number
NumberText == CASE args.number = 10000 -> "10000" [] args.number = 500 -> "500"

\* the gradient option of the candidate (f, q, b)
GradientOption(f, q, b) ==
  IF b = "scanner" THEN " -grad " \o ScannerFile(f, q)
  ELSE " -fslgrad " \o ImageFile(f, q) \o " bvals"

\* C22: the command line of every tckgen run names data.mif, mask.mif as
\* seed image and as mask, the value of -number, minimum length 0 and
\* downsample factor 5; between these fixed parts stand the gradient option
\* of the candidate and the name of its tractogram, and nothing else.  The
\* value of -number and the files data.mif and mask.mif stay the same
\* throughout the loop.
C22_SameTckgenArguments ==
  /\ []((pc = "tckstats" \/ TckgenFailed) =>
          last_cmd = "tckgen -algorithm tensor_det data.mif"
                       \o GradientOption(flip, permutation, basis)
                       \o " -seed_image mask.mif -mask mask.mif -select " \o NumberText
                       \o " -minlength 0 -downsample 5 "
                       \o TracksFile(flip, permutation, basis))
  /\ [](/\ files["data.mif"] = loaded.files["data.mif"]
        /\ files["mask.mif"] = loaded.files["mask.mif"])
  /\ [][args' = args]_vars

\* C22 witness: tckgen has just been run for the last candidate with
\* -number 500
C22_Witness ==
  /\ pc = "tckstats" /\ args.number = 500 /\ counts.tckgen = 48
  /\ << flip, permutation, basis >> = << 2, << 2, 1, 0 >>, "image" >>


\* the component along `axis` (0, 1 or 2) of the direction of volume r in a
\* table of the basis b: a column of the combined table, a row of the split
Component(table, b, r, axis) ==
  IF b = "scanner" THEN table[r][axis + 1] ELSE table[axis + 1][r]

\* the table as loaded, for the basis b
Original(b) == IF b = "scanner" THEN loaded.grad_mrtrix ELSE loaded.grad_fsl

\* the original axes of which the candidate table holds a changed component
ChangedAxes ==
  { x \in 0..2 :
      \E r \in 1..num_volumes, c \in 0..2 :
        /\ permutation[c + 1] = x
        /\ Component(grad, basis, r, c) # Component(Original(basis), basis, r, x) }

\* C23: the table of every candidate has, at place c, the original axis
\* permutation[c], where the permutation holds each of 0, 1, 2 once; every
\* component is the original one or its negation; the components of at most
\* one original axis are changed, and those are all negated: of no axis
\* without a flip, of the axis `flip` otherwise.  The b-values are the
\* original ones.
C23_AtMostOneAxisNegated ==
  pc \in {"tckgen", "tckstats"} =>
    /\ {permutation[1], permutation[2], permutation[3]} = {0, 1, 2}
    /\ IF basis = "scanner"
       THEN /\ Len(grad) = num_volumes
            /\ \A r \in 1..num_volumes :
                 Len(grad[r]) = 4 /\ grad[r][4] = loaded.grad_mrtrix[r][4]
       ELSE /\ Len(grad) = 3
            /\ \A a \in 1..3 : Len(grad[a]) = num_volumes
    /\ \A r \in 1..num_volumes, c \in 0..2 :
         Component(grad, basis, r, c)
           \in { Component(Original(basis), basis, r, permutation[c + 1]),
                 FNeg(Component(Original(basis), basis, r, permutation[c + 1])) }
    /\ Cardinality(ChangedAxes) <= 1
    /\ ChangedAxes = IF IsNumber(flip) THEN {flip} ELSE {}
    /\ \A x \in ChangedAxes : \A r \in 1..num_volumes, c \in 0..2 :
         permutation[c + 1] = x =>
           Component(grad, basis, r, c) = FNeg(Component(Original(basis), basis, r, x))

\* C23 witness: the scanner-basis candidate with flip 0 and permutation
\* (2,1,0) has been written: the last column is the negated first column of a
\* table with a first component that is not zero
C23_Witness ==
  /\ pc = "tckgen" /\ basis = "scanner" /\ flip = 0 /\ permutation = << 2, 1, 0 >>
  /\ ChangedAxes = {0}
  /\ \E r \in 1..num_volumes : loaded.grad_mrtrix[r][1].mag # 0


\* the split table is the transpose of the direction columns of the combined
\* table
IsTransposeOfDirections(split, combined) ==
  /\ Len(split) = 3
  /\ \A a \in 1..3 :
       /\ Len(split[a]) = Len(combined)
       /\ \A c \in 1..Len(combined) : split[a][c] = combined[c][a]

\* the image-basis candidate is about to be written: `grad` still holds the
\* table of the scanner-basis candidate of the same flip and permutation,
\* which is the last one evaluated
ImageAfterScanner ==
  /\ pc = "write" /\ basis = "image"
  /\ Len(lengths) > 0
  /\ Triple(lengths[Len(lengths)]) = << flip, permutation, "scanner" >>
  /\ files[ScannerFile(flip, permutation)] = grad_lines(",", grad)

\* C24: when the split table is the transpose of the direction columns of
\* the combined table, the table of every image-basis candidate is the
\* transpose of the direction columns of the table of the scanner-basis
\* candidate of the same flip and permutation, which is written just before.
C24_BasesAgreeUpToTransposition ==
  /\ []((pc = "write" /\ basis = "image") => ImageAfterScanner)
  /\ [][(ImageAfterScanner
          /\ IsTransposeOfDirections(loaded.grad_fsl, loaded.grad_mrtrix))
        => /\ pc' = "tckgen"
           /\ IsTransposeOfDirections(grad', grad)]_vars

\* C24 witness: the image-basis candidate of flip 1 and permutation (1,2,0) has
\* been written for tables that are each other's transpose and in which a
\* second component is not zero
C24_Witness ==
  /\ pc = "tckgen" /\ basis = "image" /\ flip = 1 /\ permutation = << 1, 2, 0 >>
  /\ IsTransposeOfDirections(loaded.grad_fsl, loaded.grad_mrtrix)
  /\ \E c \in 1..num_volumes : loaded.grad_fsl[2][c].mag # 0
  /\ grad[1] = [c \in 1..num_volumes |-> FNeg(loaded.grad_mrtrix[c][2])]


\* two results of equal mean length, one with flip 'none' and one with a
\* numeric flip
NoneTiesWithNumber ==
  \E i, j \in 1..Len(lengths) :
    /\ lengths[i][1] = lengths[j][1]
    /\ ~IsNumber(lengths[i][2]) /\ IsNumber(lengths[j][2])

\* C25: the ranking step never ends in an error, whatever the mean lengths
\* are, ties between a result with flip 'none' and a result with a numeric
\* flip included: lengths.sort() never raises TypeError.
C25_RankingNeverRaises == pc # "TypeError"

\* C25 witness: the sort of a list in which a result with flip 'none' and a
\* result with a numeric flip have the same mean length has raised TypeError
C25_Witness == pc = "TypeError" /\ NoneTiesWithNumber /\ printed = << >>

\* What lines 176-177 do: the sort raises TypeError only under Python 3 and
\* only for a list with such a tie; every other list is ranked.
RaisesOnlyOnMixedTie ==
  /\ pc = "TypeError" => NoneTiesWithNumber
  /\ [][(pc = "sort" /\ ~NoneTiesWithNumber) => pc' = "report"]_vars

\* C26: in every state from construction on, the button that opens a scalar
\* file is enabled only when a tractogram is selected, and
\* open_track_scalar_file_slot has not dereferenced a pointer to no
\* tractogram.
C26_ButtonOnlyWithTractogram ==
  /\ self.file_button.enabled => self.tractogram \in Tractograms
  /\ ~(undefined /\ history.event = "open_track_scalar_file_slot")

\* C26 witness: the button of the constructed widget was clicked, a file was
\* chosen, and the slot dereferenced the null pointer
C26_Witness ==
  /\ undefined
  /\ history = [ event |-> "open_track_scalar_file_slot", selected |-> FALSE ]
  /\ self.tractogram = NULL

\* once set_tractogram has been called, the button is enabled exactly when a
\* tractogram is selected, and no invalid pointer is dereferenced
ButtonFollowsSelection ==
  (self # << >> /\ history.selected) =>
     /\ self.file_button.enabled <=> self.tractogram \in Tractograms
     /\ self.tractogram \in Tractograms \cup {NULL}
     /\ ~undefined

\* the discard flags of the tractogram t
Flags(table, t) == << table[t].use_discard_lower, table[t].use_discard_upper >>

\* C27: after a first set_tractogram, whatever is selected, clicked or reset,
\* an entry of a threshold is enabled only if its check box is checked, the
\* check boxes show the discard flags of a selected tractogram that has a
\* scalar file, and set_tractogram leaves the discard flags of every
\* tractogram other than the selected one as they were.
C27_ThresholdsFollowFlags ==
  /\ [](history.selected =>
          /\ self.threshold_lower.enabled => self.threshold_lower_box.checked
          /\ self.threshold_upper.enabled => self.threshold_upper_box.checked
          /\ (self.tractogram \in Tractograms /\ tractograms[self.tractogram].scalar_filename # "") =>
                Flags(tractograms, self.tractogram) =
                   << self.threshold_lower_box.checked, self.threshold_upper_box.checked >>)
  /\ [][history'.event = "set_tractogram" =>
          \A t \in Tractograms \ {self'.tractogram} : Flags(tractograms', t) = Flags(tractograms, t)]_vars

\* C27 witness: set_tractogram has selected a tractogram with a scalar file
\* whose lower threshold is in use, so that the box is checked and the entry
\* enabled, while another tractogram has other flags
C27_Witness ==
  /\ history = [ event |-> "set_tractogram", selected |-> TRUE ]
  /\ self.tractogram = 1
  /\ tractograms[1].scalar_filename # ""
  /\ self.threshold_lower_box.checked /\ self.threshold_lower.enabled
  /\ ~self.threshold_upper_box.checked /\ ~self.threshold_upper.enabled
  /\ Flags(tractograms, 2) = << FALSE, TRUE >>

\* the rows beginInsertRows (parent, first, last) announces: first to last,
\* both included
AnnouncedRows == IF announced = << >> THEN {} ELSE announced[1] .. announced[2]

\* the rows appended since beginInsertRows; the first row is row 0
AppendedRows == rows_before .. Len(items) - 1

\* C28: when add_items has ended the insertion, the rows it announced with
\* beginInsertRows are exactly the rows it appended, whether or not every
\* image of the list could be loaded.
C28_AnnouncedRowsAreAppended == odf_position = "inserted" => AnnouncedRows = AppendedRows

\* C28 witness: two images were chosen and both were loaded, and the rows
\* announced reach one row beyond the last one of the model
C28_Witness ==
  /\ odf_position = "inserted"
  /\ Len(image_list) = 2 /\ \A i \in 1 .. 2 : image_list[i].loads
  /\ AppendedRows = rows_before .. rows_before + 1
  /\ AnnouncedRows = rows_before .. rows_before + 2

\* the images of the list that could be loaded
Loaded(entries) == { i \in 1 .. Len(entries) : entries[i].loads }

\* what add_items does: it announces one row more than the list has
\* entries, and appends a row for each entry that could be loaded
AnnouncedOneMoreThanListed ==
  odf_position = "inserted" =>
    /\ AnnouncedRows = rows_before .. rows_before + Len(image_list)
    /\ Cardinality(AppendedRows) = Cardinality(Loaded(image_list))
    /\ Cardinality(AnnouncedRows) > Cardinality(AppendedRows)

\* the linker a candidate is to be given: what LD holds if it is set, else
\* the candidate
Linker(name) == IF environ.LD # "" THEN shlex_split(environ.LD) ELSE << name >>

\* the detection loop has tried a candidate
CandidateTried == position # "idle" /\ cxx_index >= 1

\* C29: for every candidate the detection loop has tried, the first as any
\* later one, the linker command is the linker (LD if set, else the
\* candidate) followed by one copy of the linker arguments, and the command
\* for shared libraries is the same linker followed by the arguments for
\* shared libraries only.
C29_LinkerCommandPerCandidate ==
  CandidateTried =>
    /\ ld = Linker(cxx[cxx_index]) \o ld_args
    /\ ld_lib = Linker(cxx[cxx_index]) \o ld_lib_args

\* C29 witness: with LD set, the first candidate was not found and the
\* second passed; the config file has the linker arguments twice in ld and
\* once, before the arguments for shared libraries, in ld_lib
C29_Witness ==
  /\ environ.LD = "ld.gold" /\ cxx_index = 2 /\ position = "done"
  /\ config.ld = << "ld.gold" >> \o ld_args \o ld_args
  /\ config.ld_lib = << "ld.gold" >> \o ld_args \o ld_lib_args

\* without LD, and for the first candidate, the commands are as C29 says;
\* with LD each further candidate adds a copy of the linker arguments
LinkerArgumentsPileUp ==
  CandidateTried =>
    IF environ.LD = "" \/ cxx_index = 1
    THEN /\ ld = Linker(cxx[cxx_index]) \o ld_args
         /\ ld_lib = Linker(cxx[cxx_index]) \o ld_lib_args
    ELSE /\ cxx_index = 2
         /\ ld = Linker(cxx[cxx_index]) \o ld_args \o ld_args
         /\ ld_lib = Linker(cxx[cxx_index]) \o ld_args \o ld_lib_args

\* the argument is the beginning of the name of option k and of the name of
\* no option tested before it
Selects(arg, k) ==
  /\ startswith(option_strings[k], arg)
  /\ \A j \in 1 .. k - 1 : ~startswith(option_strings[j], arg)

\* an argument looked at so far selects option k
OptionSelected(k) == \E i \in 1 .. arg_index : Selects(argv[i], k)

\* the argument is the beginning of the name of no option
SelectsNone(arg) == \A k \in 1 .. Len(option_strings) : ~startswith(option_strings[k], arg)

\* C30: an argument selects an option exactly when it is the beginning of
\* that option's name and of the name of no option tested before it, in the
\* order debug, dev, assert, profile, nogui, noortho, noshared, static,
\* verbose, R, openmp; -static sets noshared too; an argument that begins no
\* option's name prints the usage text and ends the script with status 1,
\* configure.log not opened and no probe run.
C30_ArgumentParsing ==
  position # "idle" =>
    /\ debug = OptionSelected(1)
    /\ dev = OptionSelected(2)
    /\ asserts = OptionSelected(3)
    /\ profile = OptionSelected(4)
    /\ nogui = (OptionSelected(5) \/ OptionSelected(10))
    /\ (sh_basis_def # "None") = OptionSelected(6)
    /\ noshared = (OptionSelected(7) \/ OptionSelected(8))
    /\ static = OptionSelected(8)
    /\ verbose = OptionSelected(9)
    /\ R_module = OptionSelected(10)
    /\ openmp = OptionSelected(11)
    /\ (\E i \in 1 .. arg_index : SelectsNone(argv[i])) <=> stdout = "usage_string"
    /\ stdout = "usage_string" =>
         /\ SelectsNone(argv[arg_index])
         /\ position = "exit" /\ exit_status = 1
         /\ logfile = "closed" /\ config_report = << >>
         /\ cxx_index = 0 /\ config = << >>

\* C30 witness: -no has selected nogui, the first of the three options it
\* begins, and -x has ended the script with the usage text and status 1
C30_Witness ==
  /\ argv = << << "-", "n", "o" >>, << "-", "x" >> >>
  /\ arg_index = 2
  /\ nogui /\ ~noshared /\ sh_basis_def = "None"
  /\ stdout = "usage_string" /\ exit_status = 1 /\ position = "exit"
  /\ logfile = "closed" /\ config_report = << >>

====
